---------------------------- MODULE Spec2Model ----------------------------
(***************************************************************************)
(* A model of meos-rs: the process-wide engine initialisation (lib.rs) and   *)
(* the DateSpan wrapper (collections/datetime/date_span.rs) around the MEOS  *)
(* engine's span functions, and the Temporal traits (temporal/temporal.rs)   *)
(* around the engine's temporal functions.                                   *)
(*                                                                           *)
(* A NaiveDate is modelled by its chrono day number (num_days_from_ce); an   *)
(* engine date (DateADT) is a day number counted from 2000-01-01.  A         *)
(* TimeDelta is modelled by its length in whole hours, so that the           *)
(* truncation done by num_days() is part of the model.                       *)
(***************************************************************************)
EXTENDS Integers, Sequences, FiniteSets, TLC

VARIABLES
    once,          \* state of the static START: Once
    pc,            \* per thread: where it stands inside init()
    calls,         \* per thread: calls to init() issued so far
    returned,      \* per thread: calls to init() that have returned
    initCount,     \* executions of meos_sys::meos_initialize
    atexitCount,   \* registrations of finalize with libc::atexit
    slots,         \* the live DateSpan values of the client program
    last,          \* the last DateSpan operation: its inputs and its result
    tcall,         \* the last call on a temporal value: its inputs and its result
    heap,          \* per address of the allocator: "free" or "live"
    spanInner,     \* per DateSpan variable: the address its _inner holds, or 0
    fault,         \* a misuse of an allocation that backs a DateSpan, if any
    lastAlloc,     \* what the last DateSpan operation did to the allocator
    shiftCall      \* the call of shift_scale_time under way: where it stands

vars == <<once, pc, calls, returned, initCount, atexitCount, slots, last, tcall,
          heap, spanInner, fault, lastAlloc, shiftCall>>
initVars == <<once, pc, calls, returned, initCount, atexitCount>>
spanVars == <<slots, last>>
temporalVars == <<tcall>>
heapVars == <<heap, spanInner, fault, lastAlloc, shiftCall>>

---------------------------------------------------------------------------
(* Bounds of the model *)

NumThreads == 3
MaxCalls == 2
MaxOff == 2
MaxDeltaHalfDays == 3
MaxTime == 3
MaxInstants == 5
MaxHeight == 4
MaxDistance == 1
MaxParts == 3
UnitsPerInstant == 6
MaxAddr == 4

Threads == 1..NumThreads
\* The DateSpan variables of the client program.
Slots == 1..3

---------------------------------------------------------------------------
(* lib.rs: init() *)

\* A buggy Once that lets a caller start the closure whenever the
\* initialisation is not complete yet, also while another thread runs it.
OnceMayBeginRacy(state) == state # "Complete"

\* Once::call_once: the caller that finds the Once untouched runs the closure.
OnceMayBegin(state) == state = "Incomplete"

\* A thread calls init().
CallInit(t) ==
    /\ pc[t] = "idle"
    /\ calls[t] < MaxCalls
    /\ pc' = [pc EXCEPT ![t] = "call_once"]
    /\ calls' = [calls EXCEPT ![t] = @ + 1]
    /\ UNCHANGED <<once, returned, initCount, atexitCount, spanVars, temporalVars, heapVars>>

\* START.call_once(..): run the closure, wait for the thread running it, or
\* return at once when the initialisation is complete.
CallOnce(t) ==
    /\ pc[t] = "call_once"
    /\ IF once = "Complete"
       THEN /\ pc' = [pc EXCEPT ![t] = "idle"]
            /\ returned' = [returned EXCEPT ![t] = @ + 1]
            /\ UNCHANGED once
       ELSE IF OnceMayBegin(once)
       THEN /\ once' = "Running"
            /\ pc' = [pc EXCEPT ![t] = "initialize"]
            /\ UNCHANGED returned
       ELSE /\ pc' = [pc EXCEPT ![t] = "wait"]
            /\ UNCHANGED <<once, returned>>
    /\ UNCHANGED <<calls, initCount, atexitCount, spanVars, temporalVars, heapVars>>

\* The closure: meos_sys::meos_initialize(ptr.as_ptr(), None).
MeosInitialize(t) ==
    /\ pc[t] = "initialize"
    /\ initCount' = initCount + 1
    /\ pc' = [pc EXCEPT ![t] = "atexit"]
    /\ UNCHANGED <<once, calls, returned, atexitCount, spanVars, temporalVars, heapVars>>

\* The closure: libc::atexit(finalize); the Once is complete when the
\* closure returns, and so does init().
RegisterFinalize(t) ==
    /\ pc[t] = "atexit"
    /\ atexitCount' = atexitCount + 1
    /\ once' = "Complete"
    /\ pc' = [pc EXCEPT ![t] = "idle"]
    /\ returned' = [returned EXCEPT ![t] = @ + 1]
    /\ UNCHANGED <<calls, initCount, spanVars, temporalVars, heapVars>>

\* A thread blocked in call_once is released once the closure has finished.
WaitDone(t) ==
    /\ pc[t] = "wait"
    /\ once = "Complete"
    /\ pc' = [pc EXCEPT ![t] = "idle"]
    /\ returned' = [returned EXCEPT ![t] = @ + 1]
    /\ UNCHANGED <<once, calls, initCount, atexitCount, spanVars, temporalVars, heapVars>>

---------------------------------------------------------------------------
(* Values *)

NULL == [tag |-> "Null"]
NONE == [tag |-> "None"]
PANIC == [tag |-> "Panic"]
ERR == [tag |-> "Err"]
Some(s) == [tag |-> "Some", span |-> s]
Ok(s) == [tag |-> "Ok", span |-> s]

IsSpan(x) == x.tag = "Span"

Max(a, b) == IF a >= b THEN a ELSE b
Min(a, b) == IF a <= b THEN a ELSE b

\* collections/datetime/mod.rs: the chrono day number of 2000-01-01, the
\* epoch of the engine's dates.
DAYS_UNTIL_2000 == 730120

---------------------------------------------------------------------------
(* The engine (meos_sys), as far as DateSpan calls it.  A date span is kept *)
(* in canonical half-open form: an exclusive lower bound and an inclusive   *)
(* upper bound are each advanced by one day.                                *)

\* meos_sys::datespan_make: canonicalise, then refuse an inverted or empty
\* span.
datespan_make(lower, upper, lower_inc, upper_inc) ==
    LET lo == IF lower_inc THEN lower ELSE lower + 1
        up == IF upper_inc THEN upper + 1 ELSE upper
    IN  IF lo >= up
        THEN NULL
        ELSE [tag |-> "Span", lower |-> lo, upper |-> up,
              lower_inc |-> TRUE, upper_inc |-> FALSE]

\* meos_sys::datespan_lower, meos_sys::datespan_upper: the stored bounds.
datespan_lower(s) == s.lower
datespan_upper(s) == s.upper

\* meos_sys::contains_span_date: d is an engine date.
contains_span_date(s, d) ==
    /\ IF s.lower_inc THEN s.lower <= d ELSE s.lower < d
    /\ IF s.upper_inc THEN d <= s.upper ELSE d < s.upper

\* meos_sys::span_eq
span_eq(a, b) ==
    /\ a.lower = b.lower
    /\ a.upper = b.upper
    /\ a.lower_inc = b.lower_inc
    /\ a.upper_inc = b.upper_inc

\* meos_sys::span_copy
span_copy(s) == s

\* meos_sys::intersection_span_span: NULL when the spans share no value.
intersection_span_span(a, b) ==
    LET lo == Max(a.lower, b.lower)
        up == Min(a.upper, b.upper)
        lo_inc == IF a.lower = b.lower THEN a.lower_inc /\ b.lower_inc
                  ELSE IF a.lower > b.lower THEN a.lower_inc ELSE b.lower_inc
        up_inc == IF a.upper = b.upper THEN a.upper_inc /\ b.upper_inc
                  ELSE IF a.upper < b.upper THEN a.upper_inc ELSE b.upper_inc
    IN  IF lo > up \/ (lo = up /\ ~(lo_inc /\ up_inc))
        THEN NULL
        ELSE [tag |-> "Span", lower |-> lo, upper |-> up,
              lower_inc |-> lo_inc, upper_inc |-> up_inc]

\* meos_sys::datespan_shift_scale: NULL unless a shift or a width is given
\* and the width is positive.  The new exclusive upper bound lies width + 1
\* days after the lower bound.
datespan_shift_scale(s, shift, width, hasshift, haswidth) ==
    IF ~(hasshift \/ haswidth) \/ (haswidth /\ width <= 0)
    THEN NULL
    ELSE LET lo == IF hasshift THEN s.lower + shift ELSE s.lower
             up == IF haswidth THEN lo + width + 1
                   ELSE IF hasshift THEN s.upper + shift ELSE s.upper
         IN  [s EXCEPT !.lower = lo, !.upper = up]

\* meos_sys::distance_datespan_datespan: 0 for spans that share a date,
\* otherwise the days from the last date of the earlier span to the first
\* date of the later one.
distance_datespan_datespan(a, b) ==
    LET first(s) == IF s.lower_inc THEN s.lower ELSE s.lower + 1
        final(s) == IF s.upper_inc THEN s.upper ELSE s.upper - 1
    IN  IF final(a) < first(b) THEN first(b) - final(a)
        ELSE IF final(b) < first(a) THEN first(a) - final(b)
        ELSE 0

\* meos_sys::distance_span_date: 0 when the span contains the engine date
\* d, otherwise the days from d to the nearest date of the span.
distance_span_date(s, d) ==
    LET first == IF s.lower_inc THEN s.lower ELSE s.lower + 1
        final == IF s.upper_inc THEN s.upper ELSE s.upper - 1
    IN  IF d < first THEN first - d
        ELSE IF d > final THEN d - final
        ELSE 0

\* meos_sys::span_cmp: -1, 0 or 1; the lower bounds first (an inclusive one
\* before an exclusive one at the same value), then the upper bounds (an
\* exclusive one before an inclusive one).
span_cmp(a, b) ==
    IF a.lower # b.lower THEN (IF a.lower < b.lower THEN 0 - 1 ELSE 1)
    ELSE IF a.lower_inc # b.lower_inc THEN (IF a.lower_inc THEN 0 - 1 ELSE 1)
    ELSE IF a.upper # b.upper THEN (IF a.upper < b.upper THEN 0 - 1 ELSE 1)
    ELSE IF a.upper_inc # b.upper_inc THEN (IF a.upper_inc THEN 1 ELSE 0 - 1)
    ELSE 0

\* meos_sys::span_hash: a 32-bit mix of the stored bounds and their
\* inclusivity (here a 16-bit one).
span_hash(s) ==
    LET flags == (IF s.lower_inc THEN 2 ELSE 0) + (IF s.upper_inc THEN 1 ELSE 0)
    IN  ((((s.lower % 65536) * 31 + (s.upper % 65536)) % 65536) * 4 + flags) % 65536

---------------------------------------------------------------------------
(* Text.  A text is a sequence of tokens: the brackets, the comma, a date   *)
(* literal (with the chrono day number of the date it writes), a character  *)
(* that belongs to no span literal, and a NUL byte.                         *)

Tok(k) == [k |-> k, d |-> 0]
DateTok(date) == [k |-> "date", d |-> date]

\* CString::new fails exactly on a text with an interior NUL byte.
HasNul(text) == \E i \in 1..Len(text) : text[i].k = "nul"

\* meos_sys::datespan_in: the grammar ('[' | '(') lower ',' upper (']' | ')');
\* NULL for any other text and for an empty or inverted span.
datespan_in(text) ==
    IF /\ Len(text) = 5
       /\ text[1].k \in {"[", "("}
       /\ text[2].k = "date"
       /\ text[3].k = ","
       /\ text[4].k = "date"
       /\ text[5].k \in {"]", ")"}
    THEN datespan_make(text[2].d - DAYS_UNTIL_2000, text[4].d - DAYS_UNTIL_2000,
                       text[1].k = "[", text[5].k = "]")
    ELSE NULL

\* meos_sys::datespan_out: the stored span, written with its own brackets.
datespan_out(s) ==
    <<Tok(IF s.lower_inc THEN "[" ELSE "("), DateTok(s.lower + DAYS_UNTIL_2000),
      Tok(","), DateTok(s.upper + DAYS_UNTIL_2000),
      Tok(IF s.upper_inc THEN "]" ELSE ")")>>

---------------------------------------------------------------------------
(* date_span.rs: DateSpan.  A DateSpan value is modelled by the engine span *)
(* its pointer owns.                                                        *)

\* Span::from_inner: ptr::NonNull::new(inner).expect("No null pointers allowed")
from_inner(inner) == IF inner = NULL THEN PANIC ELSE inner

\* The conversion without the epoch: date.num_days_from_ce()
ToEngineDayNoEpoch(date) == date

\* date.checked_sub_days(DAYS_UNTIL_2000).unwrap().num_days_from_ce()
ToEngineDay(date) == date - DAYS_UNTIL_2000

\* NaiveDate::from_num_days_from_ce_opt(n).expect(..).checked_add_days(DAYS_UNTIL_2000).unwrap()
FromEngineDay(n) == n + DAYS_UNTIL_2000

\* Span::lower
lower(s) == FromEngineDay(datespan_lower(s))

\* upper() that turns the stored exclusive bound back into the last date.
upper_last_date(s) == FromEngineDay(datespan_upper(s) - 1)

\* Span::upper
upper(s) == FromEngineDay(datespan_upper(s))

\* Collection::contains: the date's chrono day number goes to the engine as
\* it is.
contains(s, content) == contains_span_date(s, content)

\* num_days rounding towards minus infinity.
num_days_floor(td) == td \div 24

\* TimeDelta::num_days of a delta of td hours: whole days, rounded towards
\* zero.
num_days(td) == IF td >= 0 THEN td \div 24 ELSE -((-td) \div 24)

\* i64 -> i32: try_into() succeeds.
FitsI32(n) == n >= -2147483647 - 1 /\ n <= 2147483647

SomeDelta(td) == [tag |-> "Some", td |-> td]
unwrap_or_default(o) == IF o.tag = "Some" THEN o.td ELSE 0

\* shift_scale with the day counts of delta and width exchanged.
shift_scale_swapped(s, delta, width) ==
    LET d == num_days(unwrap_or_default(delta))
        w == num_days(unwrap_or_default(width))
    IN  IF ~FitsI32(d) \/ ~FitsI32(w)
        THEN PANIC
        ELSE from_inner(datespan_shift_scale(s, w, d, delta.tag = "Some",
                                             width.tag = "Some"))

\* shift_scale that leaves the width as it is when the one given is not
\* positive.
shift_scale_lenient(s, delta, width) ==
    LET d == num_days(unwrap_or_default(delta))
        w == num_days(unwrap_or_default(width))
    IN  IF ~FitsI32(d) \/ ~FitsI32(w)
        THEN PANIC
        ELSE from_inner(datespan_shift_scale(s, d, w, delta.tag = "Some",
                                             width.tag = "Some" /\ w > 0))

\* Span::shift_scale
shift_scale(s, delta, width) ==
    LET d == num_days(unwrap_or_default(delta))
        w == num_days(unwrap_or_default(width))
    IN  IF ~FitsI32(d) \/ ~FitsI32(w)
        THEN PANIC
        ELSE from_inner(datespan_shift_scale(s, d, w, delta.tag = "Some",
                                             width.tag = "Some"))

\* shift that passes its delta as the width too.
shift_with_width(s, delta) == shift_scale(s, SomeDelta(delta), SomeDelta(delta))

\* Span::shift
shift(s, delta) == shift_scale(s, SomeDelta(delta), NONE)

\* scale that passes its width as the delta.
scale_as_shift(s, width) == shift_scale(s, SomeDelta(width), NONE)

\* Span::scale
scale(s, width) == shift_scale(s, NONE, SomeDelta(width))

\* Clone::clone
clone(s) == from_inner(span_copy(s))

\* PartialEq::eq
eq(a, b) == span_eq(a, b)

\* FromStr::from_str
from_str(text) ==
    IF HasNul(text)
    THEN ERR
    ELSE LET r == from_inner(datespan_in(text))
         IN  IF r = PANIC THEN PANIC ELSE Ok(r)

\* From<Range<NaiveDate>>::from
FromRange(start, end) ==
    from_inner(datespan_make(ToEngineDay(start), ToEngineDay(end), TRUE, FALSE))

\* The inclusive range built as a half-open one.
FromRangeInclusiveAsRange(start, end) ==
    from_inner(datespan_make(ToEngineDay(start), ToEngineDay(end), TRUE, FALSE))

\* From<RangeInclusive<NaiveDate>>::from
FromRangeInclusive(start, end) ==
    from_inner(datespan_make(ToEngineDay(start), ToEngineDay(end), TRUE, TRUE))

\* bitand without its null test: the engine's answer is wrapped as it comes.
bitand_unchecked(a, b) == Some(intersection_span_span(a, b))

\* bitand that hands its left operand to the engine twice.
bitand_self(a, b) ==
    LET result == intersection_span_span(a, a)
    IN  IF result # NULL THEN Some(from_inner(result)) ELSE NONE

\* BitAnd::bitand
bitand(a, b) ==
    LET result == intersection_span_span(a, b)
    IN  IF result # NULL THEN Some(from_inner(result)) ELSE NONE

\* distance_to_span that hands its receiver to the engine twice.
distance_to_span_self(a, other) == 24 * distance_datespan_datespan(a, a)

\* Span::distance_to_span: TimeDelta::days of the engine's answer, in hours.
distance_to_span(a, other) == 24 * distance_datespan_datespan(a, other)

\* Span::distance_to_value: TimeDelta::days of the engine's answer, in hours;
\* the date goes to the engine as its day number less the epoch.
distance_to_value(a, other) == 24 * distance_span_date(a, ToEngineDay(other))

\* partial_cmp whose match lacks the arm for 1.
partial_cmp_no_greater(a, other) ==
    LET c == span_cmp(a, other)
    IN  IF c = 0 - 1 THEN "Less"
        ELSE IF c = 0 THEN "Equal"
        ELSE "None"

\* PartialOrd::partial_cmp: Some(Less), Some(Equal), Some(Greater) or None.
partial_cmp(a, other) ==
    LET c == span_cmp(a, other)
    IN  IF c = 0 - 1 THEN "Less"
        ELSE IF c = 0 THEN "Equal"
        ELSE IF c = 1 THEN "Greater"
        ELSE "None"

\* Ord::cmp: partial_cmp(other).expect(..)
cmp(a, other) ==
    LET c == partial_cmp(a, other)
    IN  IF c = "None" THEN "Panic" ELSE c

\* Hash::hash: what the hasher is fed, state.write_u32(span_hash(..)).
hash(s) == <<span_hash(s)>>

\* fmt that loses the last character of the engine's text.
fmt_cut(s) == SubSeq(datespan_out(s), 1, Len(datespan_out(s)) - 1)

\* Debug::fmt: the engine's text, written as it is.
fmt(s) == datespan_out(s)

---------------------------------------------------------------------------
(* The inputs of the client program *)

\* The dates spans are built from: the days around 2000-01-01.
Offsets == (0 - 1)..MaxOff
Dates == {DAYS_UNTIL_2000 + k : k \in Offsets}

\* The dates contains() is asked about: those, and the first days of the
\* common era.
ProbeDates == Dates \cup (0..MaxOff)

\* Durations, in hours: multiples of half a day, of either sign.
Deltas == {12 * k : k \in (0 - MaxDeltaHalfDays)..MaxDeltaHalfDays}

\* Spans are kept within a window of engine days; an operation whose result
\* would leave it is not taken.
InWindow(s) == s.lower >= 0 - 1 /\ s.upper <= MaxOff + 1

WellFormedTexts ==
    {<<Tok(lb), DateTok(l), Tok(","), DateTok(u), Tok(rb)>> :
        lb \in {"[", "("}, l \in Dates, u \in Dates, rb \in {"]", ")"}}

\* Texts with one token missing, replaced or added.
SampleTexts ==
    {<<Tok(lb), DateTok(DAYS_UNTIL_2000), Tok(","), DateTok(DAYS_UNTIL_2000 + 1), Tok(rb)>> :
        lb \in {"[", "("}, rb \in {"]", ")"}}
DropAt(t, i) == SubSeq(t, 1, i - 1) \o SubSeq(t, i + 1, Len(t))
PutAt(t, i, k) == [t EXCEPT ![i] = Tok(k)]
InsertAt(t, i, k) == SubSeq(t, 1, i) \o <<Tok(k)>> \o SubSeq(t, i + 1, Len(t))
MalformedTexts ==
    {<<>>}
    \cup {DropAt(t, i) : t \in SampleTexts, i \in 1..5}
    \cup {PutAt(t, i, "x") : t \in SampleTexts, i \in 1..5}
    \cup {InsertAt(t, i, "x") : t \in SampleTexts, i \in {0, 5}}
    \cup {PutAt(t, 3, "[") : t \in SampleTexts}
NulTexts ==
    {InsertAt(t, i, "nul") : t \in SampleTexts, i \in {0, 2, 5}}
    \cup {PutAt(t, i, "nul") : t \in SampleTexts, i \in {1, 3}}
Texts == WellFormedTexts \cup MalformedTexts \cup NulTexts

---------------------------------------------------------------------------
(* The client program: a few DateSpan variables and the operations on them *)

NoOp ==
    [op |-> "none", a |-> NONE, b |-> NONE, l |-> 0, u |-> 0, text |-> <<>>,
     delta |-> NONE, width |-> NONE, res |-> NONE, flag |-> FALSE,
     num |-> 0, ord |-> "", fed |-> <<>>]

Live == {i \in Slots : IsSpan(slots[i])}
Free == {i \in Slots : ~IsSpan(slots[i])}
Dest == CHOOSE i \in Free : \A j \in Free : i <= j

\* No statement is under way.
Idle == last.op = "none"

\* Bind the result of a constructor or an operation to a new variable; a
\* call that panicked binds nothing.
Bind(r) ==
    IF IsSpan(r)
    THEN slots' = [slots EXCEPT ![Dest] = r]
    ELSE UNCHANGED slots

\* let s: DateSpan = (l..u).into()
OpFromRange(l, u) ==
    /\ Idle
    /\ Free # {}
    /\ LET r == FromRange(l, u)
       IN  /\ Bind(r)
           /\ last' = [NoOp EXCEPT !.op = "from_range", !.l = l, !.u = u, !.res = r]
    /\ UNCHANGED <<initVars, temporalVars, heapVars>>

\* let s: DateSpan = (l..=u).into()
OpFromRangeInclusive(l, u) ==
    /\ Idle
    /\ Free # {}
    /\ LET r == FromRangeInclusive(l, u)
       IN  /\ Bind(r)
           /\ last' = [NoOp EXCEPT !.op = "from_range_inclusive", !.l = l, !.u = u,
                                   !.res = r]
    /\ UNCHANGED <<initVars, temporalVars, heapVars>>

\* let s = DateSpan::from_str(text)
OpFromStr(text) ==
    /\ Idle
    /\ Free # {}
    /\ LET r == from_str(text)
       IN  /\ IF r.tag = "Ok" THEN Bind(r.span) ELSE UNCHANGED slots
           /\ last' = [NoOp EXCEPT !.op = "from_str", !.text = text, !.res = r]
    /\ UNCHANGED <<initVars, temporalVars, heapVars>>

\* let t = s.clone()
OpClone(i) ==
    /\ Idle
    /\ i \in Live
    /\ Free # {}
    /\ LET r == clone(slots[i])
       IN  /\ Bind(r)
           /\ last' = [NoOp EXCEPT !.op = "clone", !.a = slots[i], !.res = r]
    /\ UNCHANGED <<initVars, temporalVars, heapVars>>

\* let t = s.shift(delta)
OpShift(i, delta) ==
    /\ Idle
    /\ i \in Live
    /\ Free # {}
    /\ LET r == shift(slots[i], delta)
       IN  /\ IsSpan(r) => InWindow(r)
           /\ Bind(r)
           /\ last' = [NoOp EXCEPT !.op = "shift", !.a = slots[i],
                                   !.delta = SomeDelta(delta), !.res = r]
    /\ UNCHANGED <<initVars, temporalVars, heapVars>>

\* let t = s.scale(width)
OpScale(i, width) ==
    /\ Idle
    /\ i \in Live
    /\ Free # {}
    /\ LET r == scale(slots[i], width)
       IN  /\ IsSpan(r) => InWindow(r)
           /\ Bind(r)
           /\ last' = [NoOp EXCEPT !.op = "scale", !.a = slots[i],
                                   !.width = SomeDelta(width), !.res = r]
    /\ UNCHANGED <<initVars, temporalVars, heapVars>>

\* let t = s.shift_scale(delta, width)
OpShiftScale(i, delta, width) ==
    /\ Idle
    /\ i \in Live
    /\ Free # {}
    /\ LET r == shift_scale(slots[i], delta, width)
       IN  /\ IsSpan(r) => InWindow(r)
           /\ Bind(r)
           /\ last' = [NoOp EXCEPT !.op = "shift_scale", !.a = slots[i],
                                   !.delta = delta, !.width = width, !.res = r]
    /\ UNCHANGED <<initVars, temporalVars, heapVars>>

\* let t = a & b: both operands are moved into the call.
OpBitAnd(i, j) ==
    /\ Idle
    /\ i \in Live
    /\ j \in Live
    /\ i # j
    /\ LET r == bitand(slots[i], slots[j])
       IN  /\ slots' = [slots EXCEPT ![i] = IF r.tag = "Some" THEN r.span ELSE NONE,
                                     ![j] = NONE]
           /\ last' = [NoOp EXCEPT !.op = "bitand", !.a = slots[i], !.b = slots[j],
                                   !.res = r]
    /\ UNCHANGED <<initVars, temporalVars, heapVars>>

\* s.contains(&v)
OpContains(i, v) ==
    /\ Idle
    /\ i \in Live
    /\ last' = [NoOp EXCEPT !.op = "contains", !.a = slots[i], !.l = v,
                            !.flag = contains(slots[i], v)]
    /\ UNCHANGED <<slots, initVars, temporalVars, heapVars>>

\* s.distance_to_value(&v)
OpDistanceToValue(i, v) ==
    /\ Idle
    /\ i \in Live
    /\ last' = [NoOp EXCEPT !.op = "distance_to_value", !.a = slots[i], !.l = v,
                            !.num = distance_to_value(slots[i], v)]
    /\ UNCHANGED <<slots, initVars, temporalVars, heapVars>>

\* a.distance_to_span(&b)
OpDistanceToSpan(i, j) ==
    /\ Idle
    /\ i \in Live
    /\ j \in Live
    /\ last' = [NoOp EXCEPT !.op = "distance_to_span", !.a = slots[i], !.b = slots[j],
                            !.num = distance_to_span(slots[i], slots[j])]
    /\ UNCHANGED <<slots, initVars, temporalVars, heapVars>>

\* a.cmp(&b), with a.partial_cmp(&b) on its way
OpCmp(i, j) ==
    /\ Idle
    /\ i \in Live
    /\ j \in Live
    /\ last' = [NoOp EXCEPT !.op = "cmp", !.a = slots[i], !.b = slots[j],
                            !.ord = cmp(slots[i], slots[j])]
    /\ UNCHANGED <<slots, initVars, temporalVars, heapVars>>

\* s.hash(&mut hasher)
OpHash(i) ==
    /\ Idle
    /\ i \in Live
    /\ last' = [NoOp EXCEPT !.op = "hash", !.a = slots[i], !.fed = hash(slots[i])]
    /\ UNCHANGED <<slots, initVars, temporalVars, heapVars>>

\* format!("{:?}", s)
OpFmt(i) ==
    /\ Idle
    /\ i \in Live
    /\ last' = [NoOp EXCEPT !.op = "fmt", !.a = slots[i], !.text = fmt(slots[i])]
    /\ UNCHANGED <<slots, initVars, temporalVars, heapVars>>

\* A variable goes out of scope.
OpDrop(i) ==
    /\ Idle
    /\ i \in Live
    /\ slots' = [slots EXCEPT ![i] = NONE]
    /\ last' = NoOp
    /\ UNCHANGED <<initVars, temporalVars, heapVars>>

\* The statement is over: its operands and its result are observed no longer.
OpDone ==
    /\ ~Idle
    /\ last' = NoOp
    /\ UNCHANGED <<slots, initVars, temporalVars, heapVars>>

---------------------------------------------------------------------------
(* The engine (meos_sys), as far as the Temporal traits call it.  A temporal *)
(* value is defined at some of the instants 1..MaxTime and has one of two    *)
(* values at each of them; 0 stands for "not defined at this instant".       *)
(* Instants that follow each other without a gap form one run.               *)

Times == 1..MaxTime
Values == {1, 2}

DefinedAt(v) == {t \in Times : v[t] # 0}
RunStarts(v) == {t \in DefinedAt(v) : t = 1 \/ v[t - 1] = 0}

\* The subtype the engine gives a result: one instant, one run, several runs.
Shape(v) ==
    IF Cardinality(DefinedAt(v)) = 1 THEN "Instant"
    ELSE IF Cardinality(RunStarts(v)) = 1 THEN "Sequence"
    ELSE "SequenceSet"

\* A result of the engine: a null pointer when nothing is left.
temporal_make(v) ==
    IF DefinedAt(v) = {}
    THEN NULL
    ELSE [tag |-> "Inner", subtype |-> Shape(v), vals |-> v]

Restrict(v, S) == [t \in Times |-> IF t \in S THEN v[t] ELSE 0]

\* meos_sys::temporal_at_timestamptz .. temporal_minus_tstzspanset: the part
\* of the value at, or off, an instant, a span of time, a set of spans.
temporal_at_timestamptz(a, t) == temporal_make(Restrict(a.vals, {t}))
temporal_at_tstzspan(a, span) == temporal_make(Restrict(a.vals, span))
temporal_at_tstzspanset(a, ss) == temporal_make(Restrict(a.vals, ss))
temporal_minus_timestamptz(a, t) == temporal_make(Restrict(a.vals, Times \ {t}))
temporal_minus_tstzset(a, set) == temporal_make(Restrict(a.vals, Times \ set))
temporal_minus_tstzspan(a, span) == temporal_make(Restrict(a.vals, Times \ span))
temporal_minus_tstzspanset(a, ss) == temporal_make(Restrict(a.vals, Times \ ss))

MinOf(v) == CHOOSE x \in {v[t] : t \in DefinedAt(v)} : \A t \in DefinedAt(v) : x <= v[t]
MaxOf(v) == CHOOSE x \in {v[t] : t \in DefinedAt(v)} : \A t \in DefinedAt(v) : x >= v[t]

\* meos_sys::temporal_at_min .. temporal_minus_max: the part of the value
\* at, or off, its least or greatest value.
temporal_at_min(a) ==
    temporal_make(Restrict(a.vals, {t \in Times : a.vals[t] = MinOf(a.vals)}))
temporal_at_max(a) ==
    temporal_make(Restrict(a.vals, {t \in Times : a.vals[t] = MaxOf(a.vals)}))
temporal_minus_min(a) ==
    temporal_make(Restrict(a.vals, {t \in Times : a.vals[t] # MinOf(a.vals)}))
temporal_minus_max(a) ==
    temporal_make(Restrict(a.vals, {t \in Times : a.vals[t] # MaxOf(a.vals)}))

\* meos_sys::temporal_merge: the value defined wherever one of the two is;
\* two values that differ at a common instant cannot be merged.
temporal_merge(a, b) ==
    IF \E t \in DefinedAt(a.vals) \cap DefinedAt(b.vals) : a.vals[t] # b.vals[t]
    THEN NULL
    ELSE temporal_make([t \in Times |-> IF a.vals[t] # 0 THEN a.vals[t] ELSE b.vals[t]])

\* meos_sys::temporal_eq: the same value at the same instants.
temporal_eq(a, b) == a.vals = b.vals

\* The first and the last instant of a set of instants.
FirstInstant(S) == CHOOSE t \in S : \A u \in S : t <= u
LastInstant(S) == CHOOSE t \in S : \A u \in S : u <= t

\* A sequence of the engine: its instants, its interpolation and whether its
\* first and its last instant belong to it.
tsequence_make(v, interp, lower_inc, upper_inc) ==
    [tag |-> "Inner", subtype |-> "Sequence", vals |-> v, interp |-> interp,
     lower_inc |-> lower_inc, upper_inc |-> upper_inc]

\* The value the engine found.
Found(x) == [tag |-> "Found", value |-> x]

\* meos_sys::temporal_value_at_timestamptz on a sequence: nothing outside
\* the time span or at an excluded bound; with Discrete interpolation the
\* value of the instant at t only, with Stepwise interpolation the value of
\* the last instant at or before t.
temporal_value_at_timestamptz(a, t) ==
    LET instants == DefinedAt(a.vals)
    IN  IF t < FirstInstant(instants) \/ t > LastInstant(instants) THEN NULL
        ELSE IF t = FirstInstant(instants) /\ ~a.lower_inc THEN NULL
        ELSE IF t = LastInstant(instants) /\ ~a.upper_inc THEN NULL
        ELSE IF a.interp = "Discrete"
             THEN IF t \in instants THEN Found(a.vals[t]) ELSE NULL
             ELSE Found(a.vals[LastInstant({u \in instants : u <= t})])

\* The time of the k-th instant of a value, counting from 1.
InstantTime(v, k) ==
    CHOOSE t \in DefinedAt(v) : Cardinality({u \in DefinedAt(v) : u <= t}) = k

\* meos_sys::temporal_num_instants, temporal_start_instant,
\* temporal_end_instant.
temporal_num_instants(a) == Cardinality(DefinedAt(a.vals))
temporal_start_instant(a) ==
    temporal_make(Restrict(a.vals, {FirstInstant(DefinedAt(a.vals))}))
temporal_end_instant(a) ==
    temporal_make(Restrict(a.vals, {LastInstant(DefinedAt(a.vals))}))

\* meos_sys::temporal_instant_n and temporal_timestamptz_n: the engine
\* numbers the instants from 1, and has nothing for any other n.
temporal_instant_n(a, n) ==
    IF n < 1 \/ n > temporal_num_instants(a)
    THEN NULL
    ELSE temporal_make(Restrict(a.vals, {InstantTime(a.vals, n)}))
temporal_timestamptz_n(a, n) ==
    IF n < 1 \/ n > temporal_num_instants(a)
    THEN NULL
    ELSE Found(InstantTime(a.vals, n))

\* A sequence of the engine with Linear interpolation: its instants in
\* ascending order of time.
Instant(t, x) == [t |-> t, value |-> x]
tsequence_linear(instants) ==
    [tag |-> "Inner", subtype |-> "Sequence", interp |-> "Linear",
     instants |-> instants]

Abs(x) == IF x < 0 THEN 0 - x ELSE x

\* How far the instant p lies from the chord between the instants a and b,
\* times the duration of the chord.  Synchronized: from the value the chord
\* has at the time of p.  Otherwise: from the nearest value on the chord.
Deviation(a, b, p, synchronized) ==
    IF synchronized
    THEN Abs((p.value - a.value) * (b.t - a.t) - (b.value - a.value) * (p.t - a.t))
    ELSE (b.t - a.t) *
         (IF p.value < Min(a.value, b.value) THEN Min(a.value, b.value) - p.value
          ELSE IF p.value > Max(a.value, b.value) THEN p.value - Max(a.value, b.value)
          ELSE 0)

\* The instants strictly between the i-th and the j-th that Douglas-Peucker
\* keeps: the first one that lies farthest from the chord, if it lies
\* farther than the distance, and what is kept on either side of it.
RECURSIVE KeptBetween(_, _, _, _, _)
KeptBetween(instants, i, j, distance, synchronized) ==
    IF j - i < 2 THEN {}
    ELSE LET dev(k) == Deviation(instants[i], instants[j], instants[k], synchronized)
             split == CHOOSE k \in (i + 1)..(j - 1) :
                          /\ \A m \in (i + 1)..(j - 1) : dev(m) <= dev(k)
                          /\ \A m \in (i + 1)..(k - 1) : dev(m) < dev(k)
         IN  IF dev(split) > distance * (instants[j].t - instants[i].t)
             THEN KeptBetween(instants, i, split, distance, synchronized)
                  \cup {split}
                  \cup KeptBetween(instants, split, j, distance, synchronized)
             ELSE {}

\* The instants of the given indices, in their order.
RECURSIVE Pick(_, _, _)
Pick(instants, kept, i) ==
    IF i > Len(instants) THEN <<>>
    ELSE (IF i \in kept THEN <<instants[i]>> ELSE <<>>)
         \o Pick(instants, kept, i + 1)

\* meos_sys::temporal_simplify_dp on a sequence: the first and the last
\* instant and the instants Douglas-Peucker keeps between them.
temporal_simplify_dp(a, distance, synchronized) ==
    LET n == Len(a.instants)
    IN  tsequence_linear(
            Pick(a.instants,
                 {1, n} \cup KeptBetween(a.instants, 1, n, distance, synchronized),
                 1))

\* A span of time [lower, upper], both bounds inclusive, and the instants of
\* a sequence of spans.
TimeSpan(lo, hi) == [lower |-> lo, upper |-> hi]
InstantsOf(spans) ==
    UNION {spans[i].lower..spans[i].upper : i \in 1..Len(spans)}

\* The spans of a set, by ascending lower bound.
SortSpans(S) ==
    IF S = {} THEN <<>>
    ELSE CHOOSE seq \in [1..Cardinality(S) -> S] :
             \A i \in 1..(Cardinality(S) - 1) : seq[i].lower < seq[i + 1].lower

\* The maximal runs of a set of instants, as spans in ascending order.
RunsOf(S) ==
    SortSpans({TimeSpan(lo, hi) : lo \in S, hi \in S} \cap
              {x \in [lower : S, upper : S] :
                   /\ x.lower <= x.upper
                   /\ \A t \in x.lower..x.upper : t \in S
                   /\ x.lower - 1 \notin S
                   /\ x.upper + 1 \notin S})

\* meos_sys::temporal_time: the spans of time over which the value is defined.
temporal_time(a) == [tag |-> "Inner", spans |-> RunsOf(DefinedAt(a.vals))]

\* The merge-scan of the span set operations: two sorted sequences of spans
\* are merged into one sorted by lower bound.
RECURSIVE MergeSorted(_, _)
MergeSorted(x, y) ==
    IF x = <<>> THEN y
    ELSE IF y = <<>> THEN x
    ELSE IF x[1].lower <= y[1].lower
         THEN <<x[1]>> \o MergeSorted(Tail(x), y)
         ELSE <<y[1]>> \o MergeSorted(x, Tail(y))

\* Spans that overlap or touch are merged into one.
RECURSIVE MergeTouching(_, _)
MergeTouching(done, rest) ==
    IF rest = <<>> THEN done
    ELSE IF done = <<>> THEN MergeTouching(<<rest[1]>>, Tail(rest))
    ELSE LET n == Len(done)
         IN  IF rest[1].lower <= done[n].upper + 1
             THEN MergeTouching(
                      [done EXCEPT ![n].upper = Max(done[n].upper, rest[1].upper)],
                      Tail(rest))
             ELSE MergeTouching(Append(done, rest[1]), Tail(rest))

\* meos_sys::union_spanset_spanset, intersection_spanset_spanset,
\* minus_spanset_spanset: all covered regions with touching runs merged, the
\* overlapping regions, the regions of the first not covered by the second;
\* a null pointer when nothing is left.
union_spanset_spanset(x, y) ==
    [tag |-> "Inner", spans |-> MergeTouching(<<>>, MergeSorted(x.spans, y.spans))]
intersection_spanset_spanset(x, y) ==
    LET overlaps == {TimeSpan(Max(x.spans[i].lower, y.spans[j].lower),
                              Min(x.spans[i].upper, y.spans[j].upper)) :
                         i \in 1..Len(x.spans), j \in 1..Len(y.spans)}
        kept == {s \in overlaps : s.lower <= s.upper}
    IN  IF kept = {} THEN NULL ELSE [tag |-> "Inner", spans |-> SortSpans(kept)]
minus_spanset_spanset(x, y) ==
    LET left == InstantsOf(x.spans) \ InstantsOf(y.spans)
    IN  IF left = {} THEN NULL ELSE [tag |-> "Inner", spans |-> RunsOf(left)]

\* The width of half a usize word and half of that: a usize is written as
\* hi * 2^16 + lo.
TwoTo16 == 65536
TwoTo15 == 32768

\* `n as i32`: the low 32 bits of n, read as a signed number.
as_i32(n) ==
    LET h == n.hi % TwoTo16
    IN  (IF h >= TwoTo15 THEN h - TwoTo16 ELSE h) * TwoTo16 + n.lo

\* Division of i64: the quotient is rounded towards zero.
TruncDiv(x, y) ==
    IF y > Abs(x) \/ y < 0 - Abs(x) THEN 0
    ELSE IF (x >= 0) = (y > 0) THEN Abs(x) \div Abs(y)
    ELSE 0 - (Abs(x) \div Abs(y))

\* meos_sys::temporal_start_timestamptz, temporal_end_timestamptz
temporal_start_timestamptz(a) == FirstInstant(DefinedAt(a.vals))
temporal_end_timestamptz(a) == LastInstant(DefinedAt(a.vals))

\* The part of a value in the k-th tile of the given duration from the
\* origin on: the tile includes its lower and excludes its upper bound.
\* Durations count in units of which UnitsPerInstant lie between two
\* instants of the grid.
Fragment(a, k, duration, origin) ==
    LET lo == origin * UnitsPerInstant + k * duration
        hi == lo + duration
    IN  [tag |-> "Inner", subtype |-> a.subtype, lower |-> lo, upper |-> hi,
         vals |-> Restrict(a.vals, {t \in Times : lo <= t * UnitsPerInstant
                                                  /\ t * UnitsPerInstant < hi})]

\* The value is defined somewhere in the k-th tile: one of its runs reaches
\* into the tile.
DefinedInTile(a, k, duration, origin) ==
    LET lo == origin * UnitsPerInstant + k * duration
        hi == lo + duration
        runs == RunsOf(DefinedAt(a.vals))
    IN  \E i \in 1..Len(runs) :
            /\ runs[i].lower * UnitsPerInstant < hi
            /\ runs[i].upper * UnitsPerInstant >= lo

RECURSIVE Fragments(_, _, _, _, _)
Fragments(a, k, final, duration, origin) ==
    IF k > final THEN <<>>
    ELSE (IF DefinedInTile(a, k, duration, origin)
          THEN <<Fragment(a, k, duration, origin)>>
          ELSE <<>>)
         \o Fragments(a, k + 1, final, duration, origin)

\* meos_sys::temporal_time_split: the parts of the value in the tiles of
\* the given duration from the origin on, up to the tile of its last
\* instant; an error and a null pointer for a duration that is not positive.
temporal_time_split(a, duration, origin) ==
    IF duration <= 0 THEN NULL
    ELSE [tag |-> "Inner",
          items |-> Fragments(a, 0,
                       ((temporal_end_timestamptz(a) - origin) * UnitsPerInstant)
                           \div duration,
                       duration, origin)]

Holds(rel, x, y) ==
    CASE rel = "eq" -> x = y
      [] rel = "ne" -> x # y
      [] rel = "lt" -> x < y
      [] rel = "le" -> x <= y
      [] rel = "ge" -> x >= y
      [] rel = "gt" -> x > y

\* meos_sys::ever_eq_temporal_temporal .. always_gt_temporal_temporal, by the
\* comparison applied: 1 or 0 over the instants at which both values are
\* defined, -1 when there is none.
ever_temporal_temporal(rel, a, b) ==
    LET common == DefinedAt(a.vals) \cap DefinedAt(b.vals)
    IN  IF common = {} THEN 0 - 1
        ELSE IF \E t \in common : Holds(rel, a.vals[t], b.vals[t]) THEN 1 ELSE 0
always_temporal_temporal(rel, a, b) ==
    LET common == DefinedAt(a.vals) \cap DefinedAt(b.vals)
    IN  IF common = {} THEN 0 - 1
        ELSE IF \A t \in common : Holds(rel, a.vals[t], b.vals[t]) THEN 1 ELSE 0

\* meos_sys::ever_eq_tint_int .. always_ne_tint_int: the comparisons of a
\* temporal value with a value.
ever_temporal_base(rel, a, value) ==
    IF \E t \in DefinedAt(a.vals) : Holds(rel, a.vals[t], value) THEN 1 ELSE 0
always_temporal_base(rel, a, value) ==
    IF \A t \in DefinedAt(a.vals) : Holds(rel, a.vals[t], value) THEN 1 ELSE 0


---------------------------------------------------------------------------
(* The Temporal traits (temporal/temporal.rs).  A value of a Rust type is    *)
(* the variant its type stands for and the engine value it owns.             *)

SomeBool(x) == [tag |-> "Some", flag |-> x]

\* crate::factory: the variant is read off the engine's result.
factory(inner) ==
    IF inner = NULL
    THEN PANIC
    ELSE [tag |-> "Temporal", variant |-> inner.subtype, inner |-> inner]

\* Temporal::from_inner_as_temporal of the type standing for `variant`: the
\* result is a value of that type.
from_inner_as_temporal(variant, inner) ==
    IF inner = NULL
    THEN PANIC
    ELSE [tag |-> "Temporal", variant |-> variant, inner |-> inner]

\* simplify_douglas_peucker with no distance.
simplify_douglas_peucker_exact(a, distance, synchronized) ==
    factory(temporal_simplify_dp(a.inner, 0, synchronized))

\* SimplifiableTemporal::simplify_douglas_peucker
simplify_douglas_peucker(a, distance, synchronized) ==
    factory(temporal_simplify_dp(a.inner, distance, synchronized))

SomeValue(x) == [tag |-> "Some", value |-> x]

\* value_at_timestamp reading every sequence as a Discrete one.
value_at_timestamp_discrete(a, t) ==
    IF t \in DefinedAt(a.inner.vals)
       /\ temporal_value_at_timestamptz(a.inner, t) # NULL
    THEN SomeValue(a.inner.vals[t])
    ELSE NONE

\* Temporal::value_at_timestamp
value_at_timestamp(a, t) ==
    LET found == temporal_value_at_timestamptz(a.inner, t)
    IN  IF found = NULL THEN NONE ELSE SomeValue(found.value)

\* TInstant::from_inner
TInstant_from_inner(inner) ==
    IF inner = NULL THEN PANIC
    ELSE [tag |-> "Temporal", variant |-> "Instant", inner |-> inner]

\* Temporal::num_instants, start_instant, end_instant
num_instants(a) == temporal_num_instants(a.inner)
start_instant(a) == TInstant_from_inner(temporal_start_instant(a.inner))
end_instant(a) == TInstant_from_inner(temporal_end_instant(a.inner))

\* Temporal::instant_n
instant_n(a, n) ==
    LET result == temporal_instant_n(a.inner, n)
    IN  IF result # NULL THEN SomeValue(TInstant_from_inner(result)) ELSE NONE

\* Temporal::timestamp_n
timestamp_n(a, n) ==
    LET success == temporal_timestamptz_n(a.inner, n)
    IN  IF success # NULL THEN SomeValue(success.value) ELSE NONE

\* Temporal::start_timestamp, end_timestamp
start_timestamp(a) == temporal_start_timestamptz(a.inner)
end_timestamp(a) == temporal_end_timestamptz(a.inner)

Vec(items) == [tag |-> "Vec", items |-> items]

\* Temporal::time_split: the values it may return.  Vec::from_raw_parts of
\* the null pointer of a failed engine call is undefined: the call fails or
\* returns an empty Vec.
time_split(a, duration, start) ==
    LET temps == temporal_time_split(a.inner, duration, start)
    IN  IF temps = NULL
        THEN {PANIC, Vec(<<>>)}
        ELSE {Vec([i \in 1..Len(temps.items) |->
                       from_inner_as_temporal(a.variant, temps.items[i])])}

\* Temporal::time_split_n: the values it may return.  TimeDelta / i32 panics
\* when the divisor is zero.
time_split_n(a, n) ==
    IF as_i32(n) = 0
    THEN {PANIC}
    ELSE time_split(a,
                    TruncDiv((end_timestamp(a) - start_timestamp(a)) * UnitsPerInstant,
                             as_i32(n)),
                    start_timestamp(a))

\* time() giving one span for each instant.
time_of_instants(a) ==
    [tag |-> "SpanSet",
     inner |-> [tag |-> "Inner",
                spans |-> SortSpans({TimeSpan(t, t) : t \in DefinedAt(a.inner.vals)})]]

\* Temporal::time
time(a) == [tag |-> "SpanSet", inner |-> temporal_time(a.inner)]

\* TsTzSpanSet: union, intersection and minus of two span sets; an absent
\* result when the engine has none.
SpanSetResult(inner) ==
    IF inner = NULL THEN NONE ELSE [tag |-> "SpanSet", inner |-> inner]
spanset_union(x, y) == SpanSetResult(union_spanset_spanset(x.inner, y.inner))
spanset_intersection(x, y) ==
    SpanSetResult(intersection_spanset_spanset(x.inner, y.inner))
spanset_minus(x, y) == SpanSetResult(minus_spanset_spanset(x.inner, y.inner))

\* merge_other merging the receiver with itself.
merge_other_self(a, other) == factory(temporal_merge(a.inner, a.inner))

\* Temporal::merge_other
merge_other(a, other) == factory(temporal_merge(a.inner, other.inner))

\* Temporal::at_timestamp: returns Self::TI
at_timestamp(a, other) ==
    from_inner_as_temporal("Instant", temporal_at_timestamptz(a.inner, other))

\* Temporal::at_tstz_span: returns Self
at_tstz_span(a, time_span) ==
    from_inner_as_temporal(a.variant, temporal_at_tstzspan(a.inner, time_span))

\* Temporal::at_tstz_span_set: returns Self
at_tstz_span_set(a, time_span_set) ==
    from_inner_as_temporal(a.variant, temporal_at_tstzspanset(a.inner, time_span_set))

\* Temporal::minus_timestamp
minus_timestamp(a, timestamp) == factory(temporal_minus_timestamptz(a.inner, timestamp))

\* Temporal::minus_timestamp_set
minus_timestamp_set(a, timestamps) == factory(temporal_minus_tstzset(a.inner, timestamps))

\* Temporal::minus_tstz_span
minus_tstz_span(a, time_span) == factory(temporal_minus_tstzspan(a.inner, time_span))

\* Temporal::minus_tstz_span_set
minus_tstz_span_set(a, time_span_set) ==
    factory(temporal_minus_tstzspanset(a.inner, time_span_set))

\* OrderedTemporal::at_min, at_max, minus_min, minus_max: each returns Self
at_min(a) == from_inner_as_temporal(a.variant, temporal_at_min(a.inner))
at_max(a) == from_inner_as_temporal(a.variant, temporal_at_max(a.inner))
minus_min(a) == from_inner_as_temporal(a.variant, temporal_minus_min(a.inner))
minus_max(a) == from_inner_as_temporal(a.variant, temporal_minus_max(a.inner))

\* always_less with the undefined outcome reported as Some(false).
always_less_coerced(a, other) ==
    SomeBool(always_temporal_temporal("lt", a.inner, other.inner) = 1)

\* ever_not_equal asking the engine for ever_eq instead.
ever_not_equal_as_equal(a, other) ==
    LET result == ever_temporal_temporal("eq", a.inner, other.inner)
    IN  IF result # 0 - 1 THEN SomeBool(result = 1) ELSE NONE

\* Temporal::always_equal .. ever_not_equal and OrderedTemporal::always_less ..
\* ever_greater: Some(result == 1) unless the engine reports -1.  always_greater
\* evaluates the same expression twice and returns the second.
always_equal(a, other) ==
    LET result == always_temporal_temporal("eq", a.inner, other.inner)
    IN  IF result # 0 - 1 THEN SomeBool(result = 1) ELSE NONE

always_not_equal(a, other) ==
    LET result == always_temporal_temporal("ne", a.inner, other.inner)
    IN  IF result # 0 - 1 THEN SomeBool(result = 1) ELSE NONE

always_less(a, other) ==
    LET result == always_temporal_temporal("lt", a.inner, other.inner)
    IN  IF result # 0 - 1 THEN SomeBool(result = 1) ELSE NONE

always_less_or_equal(a, other) ==
    LET result == always_temporal_temporal("le", a.inner, other.inner)
    IN  IF result # 0 - 1 THEN SomeBool(result = 1) ELSE NONE

always_greater_or_equal(a, other) ==
    LET result == always_temporal_temporal("ge", a.inner, other.inner)
    IN  IF result # 0 - 1 THEN SomeBool(result = 1) ELSE NONE

always_greater(a, other) ==
    LET result == always_temporal_temporal("gt", a.inner, other.inner)
        discarded == IF result # 0 - 1 THEN SomeBool(result = 1) ELSE NONE
    IN  IF result # 0 - 1 THEN SomeBool(result = 1) ELSE NONE

ever_equal(a, other) ==
    LET result == ever_temporal_temporal("eq", a.inner, other.inner)
    IN  IF result # 0 - 1 THEN SomeBool(result = 1) ELSE NONE

ever_not_equal(a, other) ==
    LET result == ever_temporal_temporal("ne", a.inner, other.inner)
    IN  IF result # 0 - 1 THEN SomeBool(result = 1) ELSE NONE

ever_less(a, other) ==
    LET result == ever_temporal_temporal("lt", a.inner, other.inner)
    IN  IF result # 0 - 1 THEN SomeBool(result = 1) ELSE NONE

ever_less_or_equal(a, other) ==
    LET result == ever_temporal_temporal("le", a.inner, other.inner)
    IN  IF result # 0 - 1 THEN SomeBool(result = 1) ELSE NONE

ever_greater_or_equal(a, other) ==
    LET result == ever_temporal_temporal("ge", a.inner, other.inner)
    IN  IF result # 0 - 1 THEN SomeBool(result = 1) ELSE NONE

ever_greater(a, other) ==
    LET result == ever_temporal_temporal("gt", a.inner, other.inner)
    IN  IF result # 0 - 1 THEN SomeBool(result = 1) ELSE NONE

\* impl_always_and_ever_value_equality_functions!: the comparisons for
\* equality with a value.
always_equal_than_value(a, value) ==
    LET result == always_temporal_base("eq", a.inner, value)
    IN  IF result # 0 - 1 THEN SomeBool(result = 1) ELSE NONE

always_not_equal_than_value(a, value) ==
    LET result == always_temporal_base("ne", a.inner, value)
    IN  IF result # 0 - 1 THEN SomeBool(result = 1) ELSE NONE

ever_equal_than_value(a, value) ==
    LET result == ever_temporal_base("eq", a.inner, value)
    IN  IF result # 0 - 1 THEN SomeBool(result = 1) ELSE NONE

ever_not_equal_than_value(a, value) ==
    LET result == ever_temporal_base("ne", a.inner, value)
    IN  IF result # 0 - 1 THEN SomeBool(result = 1) ELSE NONE

---------------------------------------------------------------------------
(* A program calling the Temporal traits *)

ValueFunctions == {v \in [Times -> {0} \cup Values] : DefinedAt(v) # {}}

\* The temporal values of the program: each of the Rust type of its shape.
Temporals == {factory(temporal_make(v)) : v \in ValueFunctions}

\* The sequences of the program: with Discrete interpolation, or with
\* Stepwise interpolation and either bound inclusive or not.  A sequence of
\* one instant includes it, and a Stepwise sequence that excludes its last
\* instant ends with the value it held before.
TSequences ==
    {[tag |-> "Temporal", variant |-> "Sequence",
      inner |-> tsequence_make(v, interp, lower_inc, upper_inc)] :
         v \in ValueFunctions, interp \in {"Discrete", "Step"},
         lower_inc \in BOOLEAN, upper_inc \in BOOLEAN} \cap
    {s \in [tag : {"Temporal"}, variant : {"Sequence"},
            inner : [tag : {"Inner"}, subtype : {"Sequence"},
                     vals : ValueFunctions, interp : {"Discrete", "Step"},
                     lower_inc : BOOLEAN, upper_inc : BOOLEAN]] :
         LET instants == DefinedAt(s.inner.vals)
             final == LastInstant(instants)
         IN  /\ (s.inner.interp = "Discrete" \/ Cardinality(instants) = 1) =>
                    (s.inner.lower_inc /\ s.inner.upper_inc)
             /\ (~s.inner.upper_inc) =>
                    s.inner.vals[final] =
                        s.inner.vals[LastInstant(instants \ {final})]}

\* The sequences with Linear interpolation of the program: up to MaxInstants
\* instants, one at each of the times 1, 2, .., with values up to MaxHeight.
Heights == 0..MaxHeight
LinearSequences ==
    {factory(tsequence_linear([i \in DOMAIN h |-> Instant(i, h[i])])) :
         h \in UNION {[1..n -> Heights] : n \in 1..MaxInstants}}
Distances == 0..MaxDistance

\* The indices an instant or a timestamp is asked by.
Indices == (0 - 1)..(MaxTime + 1)

\* The numbers of parts a value is split into: small ones, and small ones
\* plus 2^31 and plus 2^32.
PartCounts == [hi : {0, TwoTo15, TwoTo16}, lo : 0..MaxParts]

\* The timestamps a value is asked for: the instants and one before and one
\* after all of them.
ProbeTimes == 0..(MaxTime + 1)

\* The spans of time and the sets of instants and of spans a call is given.
TimeSpans == {lo..hi : lo \in Times, hi \in Times} \ {{}}
TimeSets == SUBSET Times \ {{}}

NoCall ==
    [op |-> "none", a |-> NONE, b |-> NONE, value |-> 0, t |-> 0, span |-> {},
     raw |-> 0, n |-> 0, flag |-> FALSE, count |-> [hi |-> 0, lo |-> 0],
     res |-> NONE]

\* No call is under way.
NoCallYet == tcall.op = "none"

\* A call of a restriction, with the instant or the set of instants given.
Restricted(name, a, t, span, result) ==
    [NoCall EXCEPT !.op = name, !.a = a, !.t = t, !.span = span, !.res = result]

\* A call of a comparison, with what the engine reported.
Compared(name, a, b, value, raw, result) ==
    [NoCall EXCEPT !.op = name, !.a = a, !.b = b, !.value = value, !.raw = raw,
                   !.res = result]

\* let r = a.merge_other(b)
OpMergeOther(a, b) ==
    /\ NoCallYet
    /\ tcall' = [NoCall EXCEPT !.op = "merge_other", !.a = a, !.b = b,
                               !.res = merge_other(a, b)]
    /\ UNCHANGED <<initVars, spanVars, heapVars>>

\* let r = a.at_timestamp(t)
OpAtTimestamp(a, t) ==
    /\ NoCallYet
    /\ tcall' = Restricted("at_timestamp", a, t, {}, at_timestamp(a, t))
    /\ UNCHANGED <<initVars, spanVars, heapVars>>

\* let r = a.at_tstz_span(x)
OpAtTstzSpan(a, x) ==
    /\ NoCallYet
    /\ tcall' = Restricted("at_tstz_span", a, 0, x, at_tstz_span(a, x))
    /\ UNCHANGED <<initVars, spanVars, heapVars>>

\* let r = a.at_tstz_span_set(x)
OpAtTstzSpanSet(a, x) ==
    /\ NoCallYet
    /\ tcall' = Restricted("at_tstz_span_set", a, 0, x, at_tstz_span_set(a, x))
    /\ UNCHANGED <<initVars, spanVars, heapVars>>

\* let r = a.minus_timestamp(t)
OpMinusTimestamp(a, t) ==
    /\ NoCallYet
    /\ tcall' = Restricted("minus_timestamp", a, t, {}, minus_timestamp(a, t))
    /\ UNCHANGED <<initVars, spanVars, heapVars>>

\* let r = a.minus_timestamp_set(x)
OpMinusTimestampSet(a, x) ==
    /\ NoCallYet
    /\ tcall' = Restricted("minus_timestamp_set", a, 0, x, minus_timestamp_set(a, x))
    /\ UNCHANGED <<initVars, spanVars, heapVars>>

\* let r = a.minus_tstz_span(x)
OpMinusTstzSpan(a, x) ==
    /\ NoCallYet
    /\ tcall' = Restricted("minus_tstz_span", a, 0, x, minus_tstz_span(a, x))
    /\ UNCHANGED <<initVars, spanVars, heapVars>>

\* let r = a.minus_tstz_span_set(x)
OpMinusTstzSpanSet(a, x) ==
    /\ NoCallYet
    /\ tcall' = Restricted("minus_tstz_span_set", a, 0, x, minus_tstz_span_set(a, x))
    /\ UNCHANGED <<initVars, spanVars, heapVars>>

\* let r = a.at_min()
OpAtMin(a) ==
    /\ NoCallYet
    /\ tcall' = Restricted("at_min", a, 0, {}, at_min(a))
    /\ UNCHANGED <<initVars, spanVars, heapVars>>

\* let r = a.at_max()
OpAtMax(a) ==
    /\ NoCallYet
    /\ tcall' = Restricted("at_max", a, 0, {}, at_max(a))
    /\ UNCHANGED <<initVars, spanVars, heapVars>>

\* let r = a.minus_min()
OpMinusMin(a) ==
    /\ NoCallYet
    /\ tcall' = Restricted("minus_min", a, 0, {}, minus_min(a))
    /\ UNCHANGED <<initVars, spanVars, heapVars>>

\* let r = a.minus_max()
OpMinusMax(a) ==
    /\ NoCallYet
    /\ tcall' = Restricted("minus_max", a, 0, {}, minus_max(a))
    /\ UNCHANGED <<initVars, spanVars, heapVars>>

\* let r = a.always_equal(&b)
OpAlwaysEqual(a, b) ==
    /\ NoCallYet
    /\ tcall' = Compared("always_equal", a, b, 0,
                      always_temporal_temporal("eq", a.inner, b.inner),
                      always_equal(a, b))
    /\ UNCHANGED <<initVars, spanVars, heapVars>>

\* let r = a.always_not_equal(&b)
OpAlwaysNotEqual(a, b) ==
    /\ NoCallYet
    /\ tcall' = Compared("always_not_equal", a, b, 0,
                      always_temporal_temporal("ne", a.inner, b.inner),
                      always_not_equal(a, b))
    /\ UNCHANGED <<initVars, spanVars, heapVars>>

\* let r = a.always_less(&b)
OpAlwaysLess(a, b) ==
    /\ NoCallYet
    /\ tcall' = Compared("always_less", a, b, 0,
                      always_temporal_temporal("lt", a.inner, b.inner),
                      always_less(a, b))
    /\ UNCHANGED <<initVars, spanVars, heapVars>>

\* let r = a.always_less_or_equal(&b)
OpAlwaysLessOrEqual(a, b) ==
    /\ NoCallYet
    /\ tcall' = Compared("always_less_or_equal", a, b, 0,
                      always_temporal_temporal("le", a.inner, b.inner),
                      always_less_or_equal(a, b))
    /\ UNCHANGED <<initVars, spanVars, heapVars>>

\* let r = a.always_greater_or_equal(&b)
OpAlwaysGreaterOrEqual(a, b) ==
    /\ NoCallYet
    /\ tcall' = Compared("always_greater_or_equal", a, b, 0,
                      always_temporal_temporal("ge", a.inner, b.inner),
                      always_greater_or_equal(a, b))
    /\ UNCHANGED <<initVars, spanVars, heapVars>>

\* let r = a.always_greater(&b)
OpAlwaysGreater(a, b) ==
    /\ NoCallYet
    /\ tcall' = Compared("always_greater", a, b, 0,
                      always_temporal_temporal("gt", a.inner, b.inner),
                      always_greater(a, b))
    /\ UNCHANGED <<initVars, spanVars, heapVars>>

\* let r = a.ever_equal(&b)
OpEverEqual(a, b) ==
    /\ NoCallYet
    /\ tcall' = Compared("ever_equal", a, b, 0,
                      ever_temporal_temporal("eq", a.inner, b.inner),
                      ever_equal(a, b))
    /\ UNCHANGED <<initVars, spanVars, heapVars>>

\* let r = a.ever_not_equal(&b)
OpEverNotEqual(a, b) ==
    /\ NoCallYet
    /\ tcall' = Compared("ever_not_equal", a, b, 0,
                      ever_temporal_temporal("ne", a.inner, b.inner),
                      ever_not_equal(a, b))
    /\ UNCHANGED <<initVars, spanVars, heapVars>>

\* let r = a.ever_less(&b)
OpEverLess(a, b) ==
    /\ NoCallYet
    /\ tcall' = Compared("ever_less", a, b, 0,
                      ever_temporal_temporal("lt", a.inner, b.inner),
                      ever_less(a, b))
    /\ UNCHANGED <<initVars, spanVars, heapVars>>

\* let r = a.ever_less_or_equal(&b)
OpEverLessOrEqual(a, b) ==
    /\ NoCallYet
    /\ tcall' = Compared("ever_less_or_equal", a, b, 0,
                      ever_temporal_temporal("le", a.inner, b.inner),
                      ever_less_or_equal(a, b))
    /\ UNCHANGED <<initVars, spanVars, heapVars>>

\* let r = a.ever_greater_or_equal(&b)
OpEverGreaterOrEqual(a, b) ==
    /\ NoCallYet
    /\ tcall' = Compared("ever_greater_or_equal", a, b, 0,
                      ever_temporal_temporal("ge", a.inner, b.inner),
                      ever_greater_or_equal(a, b))
    /\ UNCHANGED <<initVars, spanVars, heapVars>>

\* let r = a.ever_greater(&b)
OpEverGreater(a, b) ==
    /\ NoCallYet
    /\ tcall' = Compared("ever_greater", a, b, 0,
                      ever_temporal_temporal("gt", a.inner, b.inner),
                      ever_greater(a, b))
    /\ UNCHANGED <<initVars, spanVars, heapVars>>

\* let r = a.always_equal_than_value(value)
OpAlwaysEqualThanValue(a, value) ==
    /\ NoCallYet
    /\ tcall' = Compared("always_equal_than_value", a, NONE, value,
                      always_temporal_base("eq", a.inner, value),
                      always_equal_than_value(a, value))
    /\ UNCHANGED <<initVars, spanVars, heapVars>>

\* let r = a.always_not_equal_than_value(value)
OpAlwaysNotEqualThanValue(a, value) ==
    /\ NoCallYet
    /\ tcall' = Compared("always_not_equal_than_value", a, NONE, value,
                      always_temporal_base("ne", a.inner, value),
                      always_not_equal_than_value(a, value))
    /\ UNCHANGED <<initVars, spanVars, heapVars>>

\* let r = a.ever_equal_than_value(value)
OpEverEqualThanValue(a, value) ==
    /\ NoCallYet
    /\ tcall' = Compared("ever_equal_than_value", a, NONE, value,
                      ever_temporal_base("eq", a.inner, value),
                      ever_equal_than_value(a, value))
    /\ UNCHANGED <<initVars, spanVars, heapVars>>

\* let r = a.ever_not_equal_than_value(value)
OpEverNotEqualThanValue(a, value) ==
    /\ NoCallYet
    /\ tcall' = Compared("ever_not_equal_than_value", a, NONE, value,
                      ever_temporal_base("ne", a.inner, value),
                      ever_not_equal_than_value(a, value))
    /\ UNCHANGED <<initVars, spanVars, heapVars>>

\* let r = s.value_at_timestamp(t)
OpValueAtTimestamp(s, t) ==
    /\ NoCallYet
    /\ tcall' = [NoCall EXCEPT !.op = "value_at_timestamp", !.a = s, !.t = t,
                               !.res = value_at_timestamp(s, t)]
    /\ UNCHANGED <<initVars, spanVars, heapVars>>

\* let r = s.simplify_douglas_peucker(distance, synchronized)
OpSimplifyDouglasPeucker(s, distance, synchronized) ==
    /\ NoCallYet
    /\ tcall' = [NoCall EXCEPT !.op = "simplify_douglas_peucker", !.a = s,
                               !.value = distance, !.flag = synchronized,
                               !.res = simplify_douglas_peucker(s, distance, synchronized)]
    /\ UNCHANGED <<initVars, spanVars, heapVars>>

\* let r = a.instant_n(n)
OpInstantN(a, n) ==
    /\ NoCallYet
    /\ tcall' = [NoCall EXCEPT !.op = "instant_n", !.a = a, !.n = n,
                               !.res = instant_n(a, n)]
    /\ UNCHANGED <<initVars, spanVars, heapVars>>

\* let r = a.timestamp_n(n)
OpTimestampN(a, n) ==
    /\ NoCallYet
    /\ tcall' = [NoCall EXCEPT !.op = "timestamp_n", !.a = a, !.n = n,
                               !.res = timestamp_n(a, n)]
    /\ UNCHANGED <<initVars, spanVars, heapVars>>

\* let r = a.time_split_n(n)
OpTimeSplitN(a, n) ==
    /\ NoCallYet
    /\ \E result \in time_split_n(a, n) :
           tcall' = [NoCall EXCEPT !.op = "time_split_n", !.a = a, !.count = n,
                                   !.res = result]
    /\ UNCHANGED <<initVars, spanVars, heapVars>>

\* let r = a.time()
OpTime(a) ==
    /\ NoCallYet
    /\ tcall' = [NoCall EXCEPT !.op = "time", !.a = a, !.res = time(a)]
    /\ UNCHANGED <<initVars, spanVars, heapVars>>

\* let r = a.time() | b.time()
OpSpanSetUnion(a, b) ==
    /\ NoCallYet
    /\ tcall' = [NoCall EXCEPT !.op = "spanset_union", !.a = a, !.b = b,
                               !.res = spanset_union(time(a), time(b))]
    /\ UNCHANGED <<initVars, spanVars, heapVars>>

\* let r = a.time() & b.time()
OpSpanSetIntersection(a, b) ==
    /\ NoCallYet
    /\ tcall' = [NoCall EXCEPT !.op = "spanset_intersection", !.a = a, !.b = b,
                               !.res = spanset_intersection(time(a), time(b))]
    /\ UNCHANGED <<initVars, spanVars, heapVars>>

\* let r = a.time() - b.time()
OpSpanSetMinus(a, b) ==
    /\ NoCallYet
    /\ tcall' = [NoCall EXCEPT !.op = "spanset_minus", !.a = a, !.b = b,
                               !.res = spanset_minus(time(a), time(b))]
    /\ UNCHANGED <<initVars, spanVars, heapVars>>

\* The statement is over.
OpReturn ==
    /\ ~NoCallYet
    /\ tcall' = NoCall
    /\ UNCHANGED <<initVars, spanVars, heapVars>>

---------------------------------------------------------------------------
(* The allocations behind the values: the allocator, the DateSpan variables
   that hold an engine span, and the intervals of shift_scale_time *)

Addrs == 1..MaxAddr

\* The addresses the allocator can hand out.
Unallocated == {p \in Addrs : heap[p] = "free"}

\* malloc and libc::free on the allocator's state.
malloc(h, p) == [h EXCEPT ![p] = "live"]
libc_free(h, p) == [h EXCEPT ![p] = "free"]

\* What goes wrong when an address is read, and when it is freed.
ReadFault(h, p) == IF h[p] = "live" THEN "none" ELSE "use after free"
FreeFault(h, p) == IF h[p] = "live" THEN "none" ELSE "double free"
FirstFault(faults) ==
    IF \A k \in 1..Len(faults) : faults[k] = "none" THEN "none"
    ELSE faults[CHOOSE k \in 1..Len(faults) :
                    /\ faults[k] # "none"
                    /\ \A m \in 1..(k - 1) : faults[m] = "none"]

\* Clone for DateSpan: the pointer the clone holds is the one span_copy
\* returned.
clone_inner(p, copy) == copy

\* Drop that releases nothing.
drop_forget(h, p) == h

\* Drop for DateSpan: libc::free(self._inner.as_ptr())
drop(h, p) == libc_free(h, p)

\* The DateSpan variables that hold a span, and those that hold none.
Holding == {i \in Slots : spanInner[i] # 0}
Empty == {i \in Slots : spanInner[i] = 0}

\* What the last operation on a DateSpan did to the allocator: the
\* addresses of its operands, the address it was given, the addresses it
\* released, in their order.
NoAlloc == [op |-> "none", operands |-> <<>>, made |-> 0, freed |-> <<>>]

NoShiftCall ==
    [pc |-> "idle", shift |-> FALSE, duration |-> FALSE, d |-> 0, w |-> 0,
     boxes |-> {}, outcome |-> "none"]

\* No call of shift_scale_time is under way.
NoShiftCallYet == shiftCall.pc = "idle"

valueVars == <<initVars, spanVars, temporalVars>>

\* let s: DateSpan = (start..end).into(), or text.parse(): the engine
\* allocates the span, or fails and from_inner panics on its null pointer.
HeapConstruct(dest, made) ==
    /\ NoShiftCallYet
    /\ dest \in Empty
    /\ IF made
       THEN \E p \in Unallocated :
                /\ heap' = malloc(heap, p)
                /\ spanInner' = [spanInner EXCEPT ![dest] = p]
                /\ lastAlloc' = [NoAlloc EXCEPT !.op = "construct", !.made = p]
       ELSE /\ UNCHANGED <<heap, spanInner>>
            /\ lastAlloc' = [NoAlloc EXCEPT !.op = "construct"]
    /\ UNCHANGED <<fault, shiftCall, valueVars>>

\* let c = s.clone()
HeapClone(i, dest) ==
    /\ NoShiftCallYet
    /\ i \in Holding
    /\ dest \in Empty
    /\ \E p \in Unallocated :
           /\ heap' = malloc(heap, p)
           /\ spanInner' = [spanInner EXCEPT ![dest] = clone_inner(spanInner[i], p)]
           /\ lastAlloc' = [NoAlloc EXCEPT !.op = "clone", !.operands = <<spanInner[i]>>,
                                           !.made = p]
    /\ fault' = FirstFault(<<fault, ReadFault(heap, spanInner[i])>>)
    /\ UNCHANGED <<shiftCall, valueVars>>

\* let r = s.shift_scale(delta, width), and so shift and scale: the engine
\* reads the receiver and allocates the result, or fails and from_inner
\* panics on its null pointer.
HeapShiftScale(i, dest, made) ==
    /\ NoShiftCallYet
    /\ i \in Holding
    /\ dest \in Empty
    /\ IF made
       THEN \E p \in Unallocated :
                /\ heap' = malloc(heap, p)
                /\ spanInner' = [spanInner EXCEPT ![dest] = p]
                /\ lastAlloc' = [NoAlloc EXCEPT !.op = "shift_scale",
                                                !.operands = <<spanInner[i]>>,
                                                !.made = p]
       ELSE /\ UNCHANGED <<heap, spanInner>>
            /\ lastAlloc' = [NoAlloc EXCEPT !.op = "shift_scale",
                                            !.operands = <<spanInner[i]>>]
    /\ fault' = FirstFault(<<fault, ReadFault(heap, spanInner[i])>>)
    /\ UNCHANGED <<shiftCall, valueVars>>

\* let r = a & b: the engine reads both operands and allocates the result,
\* or returns a null pointer for None; both operands were moved into bitand
\* and are dropped when it returns.  The result is bound where a was.
HeapBitAnd(i, j, some) ==
    /\ NoShiftCallYet
    /\ i \in Holding
    /\ j \in Holding
    /\ i # j
    /\ IF some
       THEN \E p \in Unallocated :
                /\ heap' = drop(drop(malloc(heap, p), spanInner[j]), spanInner[i])
                /\ spanInner' = [spanInner EXCEPT ![i] = p, ![j] = 0]
                /\ lastAlloc' = [NoAlloc EXCEPT !.op = "bitand",
                                                !.operands = <<spanInner[i], spanInner[j]>>,
                                                !.made = p,
                                                !.freed = <<spanInner[j], spanInner[i]>>]
       ELSE /\ heap' = drop(drop(heap, spanInner[j]), spanInner[i])
            /\ spanInner' = [spanInner EXCEPT ![i] = 0, ![j] = 0]
            /\ lastAlloc' = [NoAlloc EXCEPT !.op = "bitand",
                                            !.operands = <<spanInner[i], spanInner[j]>>,
                                            !.freed = <<spanInner[j], spanInner[i]>>]
    /\ fault' = FirstFault(<<fault,
                             ReadFault(heap, spanInner[i]),
                             ReadFault(heap, spanInner[j]),
                             FreeFault(heap, spanInner[j]),
                             FreeFault(drop(heap, spanInner[j]), spanInner[i])>>)
    /\ UNCHANGED <<shiftCall, valueVars>>

\* drop(s), or s goes out of scope
HeapDrop(i) ==
    /\ NoShiftCallYet
    /\ i \in Holding
    /\ heap' = drop(heap, spanInner[i])
    /\ spanInner' = [spanInner EXCEPT ![i] = 0]
    /\ lastAlloc' = [NoAlloc EXCEPT !.op = "drop", !.freed = <<spanInner[i]>>]
    /\ fault' = FirstFault(<<fault, FreeFault(heap, spanInner[i])>>)
    /\ UNCHANGED <<shiftCall, valueVars>>

\* t.shift_time(delta): shift_scale_time(Some(delta), None) is entered.
CallShiftTime ==
    /\ NoShiftCallYet
    /\ shiftCall' = [NoShiftCall EXCEPT !.pc = "let d", !.shift = TRUE]
    /\ UNCHANGED <<heap, spanInner, fault, lastAlloc, valueVars>>

\* t.scale_time(duration): shift_scale_time(None, Some(duration)) is entered.
CallScaleTime ==
    /\ NoShiftCallYet
    /\ shiftCall' = [NoShiftCall EXCEPT !.pc = "let d", !.duration = TRUE]
    /\ UNCHANGED <<heap, spanInner, fault, lastAlloc, valueVars>>

\* t.shift_scale_time(shift, duration), each of them Some or None.
CallShiftScaleTime(hasShift, hasDuration) ==
    /\ NoShiftCallYet
    /\ shiftCall' = [NoShiftCall EXCEPT !.pc = "let d", !.shift = hasShift,
                                        !.duration = hasDuration]
    /\ UNCHANGED <<heap, spanInner, fault, lastAlloc, valueVars>>

\* let d = { if let Some(d) = shift { &*Box::new(create_interval(d)) as
\* *const Interval } else { null() } }: the Box is allocated and d points
\* into it.
BoxShift ==
    /\ shiftCall.pc = "let d"
    /\ IF shiftCall.shift
       THEN \E p \in Unallocated :
                /\ heap' = malloc(heap, p)
                /\ shiftCall' = [shiftCall EXCEPT !.pc = "end of let d", !.d = p,
                                                  !.boxes = @ \cup {p}]
       ELSE /\ shiftCall' = [shiftCall EXCEPT !.pc = "let w"]
            /\ UNCHANGED heap
    /\ UNCHANGED <<spanInner, fault, lastAlloc, valueVars>>

\* The statement `let d = ..;` ends: the Box, a temporary of it, is dropped.
DropShiftBox ==
    /\ shiftCall.pc = "end of let d"
    /\ heap' = libc_free(heap, shiftCall.d)
    /\ shiftCall' = [shiftCall EXCEPT !.pc = "let w", !.boxes = @ \ {shiftCall.d}]
    /\ UNCHANGED <<spanInner, fault, lastAlloc, valueVars>>

\* let w = { if let Some(w) = duration { &*Box::new(create_interval(w)) as
\* *const Interval } else { null() } }
BoxDuration ==
    /\ shiftCall.pc = "let w"
    /\ IF shiftCall.duration
       THEN \E p \in Unallocated :
                /\ heap' = malloc(heap, p)
                /\ shiftCall' = [shiftCall EXCEPT !.pc = "end of let w", !.w = p,
                                                  !.boxes = @ \cup {p}]
       ELSE /\ shiftCall' = [shiftCall EXCEPT !.pc = "let modified"]
            /\ UNCHANGED heap
    /\ UNCHANGED <<spanInner, fault, lastAlloc, valueVars>>

\* The statement `let w = ..;` ends: its Box is dropped.
DropDurationBox ==
    /\ shiftCall.pc = "end of let w"
    /\ heap' = libc_free(heap, shiftCall.w)
    /\ shiftCall' = [shiftCall EXCEPT !.pc = "let modified",
                                      !.boxes = @ \ {shiftCall.w}]
    /\ UNCHANGED <<spanInner, fault, lastAlloc, valueVars>>

\* The pointers handed to the engine that point into no Box any more.
Dangling == {p \in {shiftCall.d, shiftCall.w} \ {0} : p \notin shiftCall.boxes}

\* let modified = temporal_shift_scale_time(self.inner(), d, w): the engine
\* reads the intervals behind d and w.  Reading released storage is
\* undefined: the engine may find the interval still there, find something
\* else, or fail.
EngineShiftScaleTime ==
    /\ shiftCall.pc = "let modified"
    /\ \E outcome \in (IF Dangling = {} THEN {"applied"}
                       ELSE {"applied", "garbage", "crash"}) :
           shiftCall' = [shiftCall EXCEPT !.pc = "called", !.outcome = outcome]
    /\ UNCHANGED <<heap, spanInner, fault, lastAlloc, valueVars>>

\* Self::from_inner_as_temporal(modified): the call returns.
ShiftCallReturn ==
    /\ shiftCall.pc = "called"
    /\ shiftCall' = NoShiftCall
    /\ UNCHANGED <<heap, spanInner, fault, lastAlloc, valueVars>>

---------------------------------------------------------------------------
(* Specifications *)

\* The process before any call to init().
InitOnce ==
    /\ once = "Incomplete"
    /\ pc = [t \in Threads |-> "idle"]
    /\ calls = [t \in Threads |-> 0]
    /\ returned = [t \in Threads |-> 0]
    /\ initCount = 0
    /\ atexitCount = 0
    /\ slots = [i \in Slots |-> NONE]
    /\ last = NoOp
    /\ tcall = NoCall
    /\ heap = [p \in Addrs |-> "free"]
    /\ spanInner = [i \in Slots |-> 0]
    /\ fault = "none"
    /\ lastAlloc = NoAlloc
    /\ shiftCall = NoShiftCall

\* The process once init() has returned: the engine is initialised, no
\* DateSpan exists yet.
Init ==
    /\ once = "Complete"
    /\ pc = [t \in Threads |-> "idle"]
    /\ calls = [t \in Threads |-> 0]
    /\ returned = [t \in Threads |-> 0]
    /\ initCount = 1
    /\ atexitCount = 1
    /\ slots = [i \in Slots |-> NONE]
    /\ last = NoOp
    /\ tcall = NoCall
    /\ heap = [p \in Addrs |-> "free"]
    /\ spanInner = [i \in Slots |-> 0]
    /\ fault = "none"
    /\ lastAlloc = NoAlloc
    /\ shiftCall = NoShiftCall

NextOnce ==
    \E t \in Threads :
        \/ CallInit(t)
        \/ CallOnce(t)
        \/ MeosInitialize(t)
        \/ RegisterFinalize(t)
        \/ WaitDone(t)

OptDeltas == {NONE} \cup {SomeDelta(d) : d \in Deltas}

\* What a statement may start from: nothing while a statement is under way.
UsableSlots == IF Idle THEN Slots ELSE {}
UsableDates == IF Idle THEN Dates ELSE {}
UsableTexts == IF Idle THEN Texts ELSE {}

Next ==
    \/ \E l \in UsableDates, u \in Dates : OpFromRange(l, u)
    \/ \E l \in UsableDates, u \in Dates : OpFromRangeInclusive(l, u)
    \/ \E text \in UsableTexts : OpFromStr(text)
    \/ \E i \in UsableSlots : OpClone(i)
    \/ \E i \in UsableSlots, d \in Deltas : OpShift(i, d)
    \/ \E i \in UsableSlots, w \in Deltas : OpScale(i, w)
    \/ \E i \in UsableSlots, d \in OptDeltas, w \in OptDeltas : OpShiftScale(i, d, w)
    \/ \E i \in UsableSlots, j \in Slots : OpBitAnd(i, j)
    \/ \E i \in UsableSlots, v \in ProbeDates : OpContains(i, v)
    \/ \E i \in UsableSlots, v \in ProbeDates : OpDistanceToValue(i, v)
    \/ \E i \in UsableSlots, j \in Slots : OpDistanceToSpan(i, j)
    \/ \E i \in UsableSlots, j \in Slots : OpCmp(i, j)
    \/ \E i \in UsableSlots : OpHash(i)
    \/ \E i \in UsableSlots : OpFmt(i)
    \/ \E i \in UsableSlots : OpDrop(i)
    \/ OpDone

\* Threads calling init().
OnceSpec == InitOnce /\ [][NextOnce]_vars

\* A program using DateSpan.
Spec == Init /\ [][Next]_vars

\* The values a call may be issued on: none while a call is under way.
Receivers == IF NoCallYet THEN Temporals ELSE {}

ReceiverSequences == IF NoCallYet THEN TSequences ELSE {}
ReceiverLinearSequences == IF NoCallYet THEN LinearSequences ELSE {}
NextTemporal ==
    \/ \E a \in Receivers, b \in Temporals : OpMergeOther(a, b)
    \/ \E a \in Receivers, t \in Times : OpAtTimestamp(a, t)
    \/ \E a \in Receivers, x \in TimeSpans : OpAtTstzSpan(a, x)
    \/ \E a \in Receivers, x \in TimeSets : OpAtTstzSpanSet(a, x)
    \/ \E a \in Receivers, t \in Times : OpMinusTimestamp(a, t)
    \/ \E a \in Receivers, x \in TimeSets : OpMinusTimestampSet(a, x)
    \/ \E a \in Receivers, x \in TimeSpans : OpMinusTstzSpan(a, x)
    \/ \E a \in Receivers, x \in TimeSets : OpMinusTstzSpanSet(a, x)
    \/ \E a \in Receivers : OpAtMin(a)
    \/ \E a \in Receivers : OpAtMax(a)
    \/ \E a \in Receivers : OpMinusMin(a)
    \/ \E a \in Receivers : OpMinusMax(a)
    \/ \E a \in Receivers, b \in Temporals : OpAlwaysEqual(a, b)
    \/ \E a \in Receivers, b \in Temporals : OpAlwaysNotEqual(a, b)
    \/ \E a \in Receivers, b \in Temporals : OpAlwaysLess(a, b)
    \/ \E a \in Receivers, b \in Temporals : OpAlwaysLessOrEqual(a, b)
    \/ \E a \in Receivers, b \in Temporals : OpAlwaysGreaterOrEqual(a, b)
    \/ \E a \in Receivers, b \in Temporals : OpAlwaysGreater(a, b)
    \/ \E a \in Receivers, b \in Temporals : OpEverEqual(a, b)
    \/ \E a \in Receivers, b \in Temporals : OpEverNotEqual(a, b)
    \/ \E a \in Receivers, b \in Temporals : OpEverLess(a, b)
    \/ \E a \in Receivers, b \in Temporals : OpEverLessOrEqual(a, b)
    \/ \E a \in Receivers, b \in Temporals : OpEverGreaterOrEqual(a, b)
    \/ \E a \in Receivers, b \in Temporals : OpEverGreater(a, b)
    \/ \E a \in Receivers, value \in Values : OpAlwaysEqualThanValue(a, value)
    \/ \E a \in Receivers, value \in Values : OpAlwaysNotEqualThanValue(a, value)
    \/ \E a \in Receivers, value \in Values : OpEverEqualThanValue(a, value)
    \/ \E a \in Receivers, value \in Values : OpEverNotEqualThanValue(a, value)
    \/ \E s \in ReceiverSequences, t \in ProbeTimes : OpValueAtTimestamp(s, t)
    \/ \E s \in ReceiverLinearSequences, distance \in Distances, synchronized \in BOOLEAN :
           OpSimplifyDouglasPeucker(s, distance, synchronized)
    \/ \E a \in Receivers, n \in Indices : OpInstantN(a, n)
    \/ \E a \in Receivers, n \in Indices : OpTimestampN(a, n)
    \/ \E a \in Receivers, n \in PartCounts : OpTimeSplitN(a, n)
    \/ \E a \in Receivers : OpTime(a)
    \/ \E a \in Receivers, b \in Temporals : OpSpanSetUnion(a, b)
    \/ \E a \in Receivers, b \in Temporals : OpSpanSetIntersection(a, b)
    \/ \E a \in Receivers, b \in Temporals : OpSpanSetMinus(a, b)
    \/ OpReturn

\* A program using temporal values.
TemporalSpec == Init /\ [][NextTemporal]_vars

\* A program that builds, copies, combines and drops DateSpan values and
\* shifts and scales a temporal value in time, all on one allocator.
NextHeap ==
    \/ \E dest \in Slots, made \in BOOLEAN : HeapConstruct(dest, made)
    \/ \E i \in Slots, dest \in Slots : HeapClone(i, dest)
    \/ \E i \in Slots, dest \in Slots, made \in BOOLEAN : HeapShiftScale(i, dest, made)
    \/ \E i \in Slots, j \in Slots, some \in BOOLEAN : HeapBitAnd(i, j, some)
    \/ \E i \in Slots : HeapDrop(i)
    \/ CallShiftTime
    \/ CallScaleTime
    \/ \E hasShift \in BOOLEAN, hasDuration \in BOOLEAN :
           CallShiftScaleTime(hasShift, hasDuration)
    \/ BoxShift
    \/ DropShiftBox
    \/ BoxDuration
    \/ DropDurationBox
    \/ EngineShiftScaleTime
    \/ ShiftCallReturn

HeapSpec == Init /\ [][NextHeap]_vars

---------------------------------------------------------------------------
(* Notions the claims are stated with *)

\* The dates a span literal with bounds l, u and the given inclusivity
\* denotes.
DenotedDates(l, u, l_inc, u_inc) ==
    {d \in l..u : (l_inc \/ d > l) /\ (u_inc \/ d < u)}

\* The dates a DateSpan holds, read through lower() and upper() and the
\* inclusivity of its bounds.
DatesOf(s) == DenotedDates(lower(s), upper(s), s.lower_inc, s.upper_inc)

\* A span value that is not empty.
NonEmpty(s) ==
    /\ IsSpan(s)
    /\ lower(s) <= upper(s)
    /\ lower(s) = upper(s) => s.lower_inc /\ s.upper_inc

\* The text is a span literal: bracket, date, comma, date, bracket.
MatchesGrammar(text) ==
    /\ Len(text) = 5
    /\ text[1].k \in {"[", "("}
    /\ text[2].k = "date"
    /\ text[3].k = ","
    /\ text[4].k = "date"
    /\ text[5].k \in {"]", ")"}

\* A text of the form lb l, u rb.
IsLiteral(text, lb, rb) ==
    MatchesGrammar(text) /\ text[1].k = lb /\ text[5].k = rb

\* == on Option<DateSpan>
OptEq(x, y) ==
    /\ x.tag = y.tag
    /\ x.tag = "Some" => eq(x.span, y.span)

---------------------------------------------------------------------------
(* C1 *)

\* C1: however many threads call init(), meos_initialize runs exactly once
\* and finalize is registered with atexit exactly once, and no call to
\* init() returns before that initialisation is complete.
C1_InitExactlyOnce ==
    /\ initCount <= 1
    /\ atexitCount <= 1
    /\ Cardinality({t \in Threads : pc[t] \in {"initialize", "atexit"}}) <= 1
    /\ \A t \in Threads :
          returned[t] > 0 =>
              /\ once = "Complete"
              /\ initCount = 1
              /\ atexitCount = 1

\* Every thread has issued all its calls to init() and all have returned.
C1_Witness == \A t \in Threads : returned[t] = MaxCalls

---------------------------------------------------------------------------
(* C2 *)

\* C2: every DateSpan value the program holds or is handed is non-empty
\* (lower not after upper, and both bounds inclusive when they are equal),
\* and an attempt that would yield an empty or inverted span (an empty or
\* inverted range or literal, an intersection of spans with no common date)
\* produces no span value.
C2_SpansNonEmpty ==
    /\ \A i \in Slots : slots[i] = NONE \/ NonEmpty(slots[i])
    /\ IsSpan(last.res) => NonEmpty(last.res)
    /\ last.res.tag \in {"Ok", "Some"} => NonEmpty(last.res.span)
    /\ (last.op = "from_range" /\ DenotedDates(last.l, last.u, TRUE, FALSE) = {})
          => ~IsSpan(last.res)
    /\ (last.op = "from_range_inclusive" /\ DenotedDates(last.l, last.u, TRUE, TRUE) = {})
          => ~IsSpan(last.res)
    /\ (/\ last.op = "from_str"
        /\ MatchesGrammar(last.text)
        /\ DenotedDates(last.text[2].d, last.text[4].d,
                        last.text[1].k = "[", last.text[5].k = "]") = {})
          => last.res.tag # "Ok"
    /\ (last.op = "bitand" /\ DatesOf(last.a) \cap DatesOf(last.b) = {})
          => last.res = NONE

\* An intersection of two live spans with no common date gave None, while
\* another span is still held.
C2_Witness ==
    /\ last.op = "bitand"
    /\ last.res = NONE
    /\ Live # {}

---------------------------------------------------------------------------
(* C3 *)

\* C3: from_str of a text that does not match the span grammar returns
\* Err(ParseError), whatever the malformed text is.
C3_MalformedGivesErr ==
    (last.op = "from_str" /\ ~MatchesGrammar(last.text)) => last.res = ERR

---------------------------------------------------------------------------
(* C4 *)

---------------------------------------------------------------------------
(* C5 *)

\* C5: lower() and upper() give the canonical half-open bounds: l and u for
\* the range l..u, l + 1 day and u for the literal "(l, u)"; and converting a
\* date to the engine's day number and back gives the date again.
C5_CanonicalBounds ==
    /\ (last.op = "from_range" /\ IsSpan(last.res))
          => lower(last.res) = last.l /\ upper(last.res) = last.u
    /\ (last.op = "from_str" /\ IsLiteral(last.text, "(", ")") /\ last.res.tag = "Ok")
          => /\ lower(last.res.span) = last.text[2].d + 1
             /\ upper(last.res.span) = last.text[4].d
    /\ last.op \in {"from_range", "from_range_inclusive"}
          => /\ FromEngineDay(ToEngineDay(last.l)) = last.l
             /\ FromEngineDay(ToEngineDay(last.u)) = last.u

\* A literal "(l, u)" that denotes at least one date has been parsed.
C5_Witness ==
    /\ last.op = "from_str"
    /\ IsLiteral(last.text, "(", ")")
    /\ last.res.tag = "Ok"

---------------------------------------------------------------------------
(* C6 *)

\* C6: s.contains(v) is true exactly when v lies within the bounds of s,
\* lower() <= v < upper() for the half-open span.
C6_ContainsIffWithin ==
    last.op = "contains" =>
        (last.flag <=> (lower(last.a) <= last.l /\ last.l < upper(last.a)))

---------------------------------------------------------------------------
(* C7 *)

\* C7: a & b is Some(span) exactly when a and b have a date in common, and
\* then the span runs from the greater lower bound to the lesser upper
\* bound; otherwise, also for spans that only touch, it is None.
\* [1,11) & [9,111) == [9,11) and [1,11) & [20,30) == None.
C7_Intersection ==
    /\ last.op = "bitand" =>
          /\ last.res.tag = "Some" <=> DatesOf(last.a) \cap DatesOf(last.b) # {}
          /\ last.res.tag \in {"Some", "None"}
          /\ last.res.tag = "Some" =>
                /\ lower(last.res.span) = Max(lower(last.a), lower(last.b))
                /\ upper(last.res.span) = Min(upper(last.a), upper(last.b))
                /\ DatesOf(last.res.span) = DatesOf(last.a) \cap DatesOf(last.b)
          /\ upper(last.a) = lower(last.b) => last.res = NONE
    /\ last.op = "bitand" =>
          /\ OptEq(bitand(FromRange(1, 11), FromRange(9, 376)), Some(FromRange(9, 11)))
          /\ bitand(FromRange(1, 11), FromRange(20, 30)) = NONE

\* Two spans that overlap without one holding the other were intersected.
C7_Witness ==
    /\ last.op = "bitand"
    /\ last.res.tag = "Some"
    /\ lower(last.a) < lower(last.b)
    /\ upper(last.a) < upper(last.b)

---------------------------------------------------------------------------
(* C8 *)

\* C8: intersection is commutative, None included, and associative whenever
\* the intermediate intersections are defined.
C8_CommutativeAssociative ==
    last.op = "bitand" =>
        /\ OptEq(bitand(last.b, last.a), last.res)
        /\ \A k \in Live :
              LET c == slots[k]
                  bc == bitand(last.b, c)
              IN  (last.res.tag = "Some" /\ bc.tag = "Some")
                      => OptEq(bitand(last.res.span, c), bitand(last.a, bc.span))

\* a & b was computed, and a third span c is held with which both (a & b) & c
\* and a & (b & c) are defined, a, b and c all different.
C8_Witness ==
    /\ last.op = "bitand"
    /\ last.res.tag = "Some"
    /\ ~eq(last.a, last.b)
    /\ \E k \in Live :
          /\ ~eq(slots[k], last.a)
          /\ ~eq(slots[k], last.b)
          /\ ~eq(slots[k], last.res.span)
          /\ bitand(last.b, slots[k]).tag = "Some"
          /\ bitand(last.res.span, slots[k]).tag = "Some"

---------------------------------------------------------------------------
(* C9 *)

\* C9: for a delta d of a whole number of days, s.shift(d) is a new span
\* with both bounds of s moved by d, the width and the inclusivity of the
\* bounds unchanged, and s is left as it was.
\* [2023-01-01, 2023-01-15).shift(5 days) == [2023-01-06, 2023-01-20).
C9_Shift ==
    (last.op = "shift" /\ last.delta.td % 24 = 0) =>
        LET d == last.delta.td \div 24
        IN  /\ IsSpan(last.res)
            /\ lower(last.res) = lower(last.a) + d
            /\ upper(last.res) = upper(last.a) + d
            /\ upper(last.res) - lower(last.res) = upper(last.a) - lower(last.a)
            /\ last.res.lower_inc = last.a.lower_inc
            /\ last.res.upper_inc = last.a.upper_inc
            /\ \E i \in Live : slots[i] = last.a
            /\ eq(shift(FromRange(738521, 738535), 5 * 24), FromRange(738526, 738540))

\* A span was shifted by one day.
C9_Witness ==
    /\ last.op = "shift"
    /\ last.delta.td = 24
    /\ IsSpan(last.res)

---------------------------------------------------------------------------
(* C10 *)

\* C10: shifting by d and then by -d gives a span equal to the first one.
C10_ShiftInverse ==
    (last.op = "shift" /\ IsSpan(last.res)) =>
        LET back == shift(last.res, 0 - last.delta.td)
        IN  IsSpan(back) /\ eq(back, last.a)

\* A span was shifted back by a day and a half.
C10_Witness ==
    /\ last.op = "shift"
    /\ last.delta.td = 0 - 36
    /\ IsSpan(last.res)
    /\ ~eq(last.res, last.a)

---------------------------------------------------------------------------
(* C11 *)

---------------------------------------------------------------------------
(* C12 *)

\* C12: scaling a date span by w days gives the half-open span whose upper
\* bound lies w + 1 days after the unchanged lower bound, and
\* shift_scale(Some(d), Some(w)) equals shift(d) followed by scale(w).
\* [2023-01-01, 2023-01-15) scaled by 5 days is [2023-01-01, 2023-01-07), and
\* shifted by 5 and scaled by 10 days it is [2023-01-06, 2023-01-17).
C12_ScaleDocumented ==
    /\ (last.op = "scale" /\ IsSpan(last.res)) =>
          /\ eq(last.res, FromRange(lower(last.a),
                                    lower(last.a) + (last.width.td \div 24) + 1))
          /\ eq(scale(FromRange(738521, 738535), 5 * 24), FromRange(738521, 738527))
    /\ (last.op = "shift_scale" /\ last.delta.tag = "Some" /\ last.width.tag = "Some") =>
          LET shifted == shift(last.a, last.delta.td)
              both == IF IsSpan(shifted) THEN scale(shifted, last.width.td) ELSE PANIC
          IN  /\ IsSpan(last.res) <=> IsSpan(both)
              /\ IsSpan(last.res) => eq(last.res, both)
              /\ eq(shift_scale(FromRange(738521, 738535), SomeDelta(5 * 24),
                                SomeDelta(10 * 24)),
                    FromRange(738526, 738537))

\* A span was shifted by a day and scaled to a day in one call.
C12_Witness ==
    /\ last.op = "shift_scale"
    /\ last.delta = SomeDelta(24)
    /\ last.width = SomeDelta(24)
    /\ IsSpan(last.res)
    /\ ~eq(last.res, shift(last.a, 24))

---------------------------------------------------------------------------
(* C13 *)

\* C13: scale(w) and shift_scale(_, Some(w)) with a width w <= 0 return no
\* span: the call fails (it panics), and no span with the old or a clamped
\* width comes back.
C13_NonPositiveWidthFails ==
    (/\ last.op \in {"scale", "shift_scale"}
     /\ last.width.tag = "Some"
     /\ last.width.td <= 0)
        => /\ ~IsSpan(last.res)
           /\ last.res = PANIC

\* shift_scale was called with a delta and a width of minus one day.
C13_Witness ==
    /\ last.op = "shift_scale"
    /\ last.delta.tag = "Some"
    /\ last.width = SomeDelta(0 - 24)
    /\ last.res = PANIC

---------------------------------------------------------------------------
(* C14 *)

\* The least number of days between a date of A and a date of B.
SetGap(A, B) ==
    LET gaps == {IF x >= y THEN x - y ELSE y - x : x \in A, y \in B}
    IN  CHOOSE g \in gaps : \A h \in gaps : g <= h

\* C14: a.distance_to_span(b) is 0 when a and b overlap, otherwise the days
\* between the last date of the earlier span and the first date of the later
\* one; it is symmetric and never negative.
\* distance([2019-09-08, 2019-09-10], [2019-09-12, 2019-09-14]) == 2 days.
C14_DistanceToSpan ==
    last.op = "distance_to_span" =>
        /\ DatesOf(last.a) \cap DatesOf(last.b) # {} => last.num = 0
        /\ last.num = 24 * SetGap(DatesOf(last.a), DatesOf(last.b))
        /\ last.num = distance_to_span(last.b, last.a)
        /\ last.num >= 0
        /\ distance_to_span(FromRangeInclusive(737310, 737312),
                            FromRangeInclusive(737314, 737316)) = 2 * 24

\* The distance of two spans with a gap of more than a day was taken, the
\* later span first.
C14_Witness ==
    /\ last.op = "distance_to_span"
    /\ last.num > 24
    /\ lower(last.a) > lower(last.b)

---------------------------------------------------------------------------
(* C15 *)

Reverse(o) == IF o = "Less" THEN "Greater" ELSE IF o = "Greater" THEN "Less" ELSE o

\* C15: cmp is a total order consistent with ==: exactly one of <, ==, >
\* holds, the order is transitive, Equal means ==, spans are ordered by
\* lower bound first and then by upper bound, and partial_cmp is never None,
\* so cmp never aborts.
C15_TotalOrder ==
    last.op = "cmp" =>
        /\ last.ord \in {"Less", "Equal", "Greater"}
        /\ partial_cmp(last.a, last.b) # "None"
        /\ last.ord = "Equal" <=> eq(last.a, last.b)
        /\ cmp(last.b, last.a) = Reverse(last.ord)
        /\ lower(last.a) < lower(last.b) => last.ord = "Less"
        /\ (lower(last.a) = lower(last.b) /\ upper(last.a) < upper(last.b))
              => last.ord = "Less"
        /\ \A k \in Live :
              (last.ord = "Less" /\ cmp(last.b, slots[k]) = "Less")
                  => cmp(last.a, slots[k]) = "Less"

\* A span was compared with one of the same lower bound and a lesser upper
\* bound, while a third span greater than both is held.
C15_Witness ==
    /\ last.op = "cmp"
    /\ last.ord = "Greater"
    /\ lower(last.a) = lower(last.b)
    /\ \E k \in Live : cmp(last.a, slots[k]) = "Less"

---------------------------------------------------------------------------
(* C16 *)

\* C16: equal spans hash identically: a span equal to the one hashed feeds
\* the hasher the same, so does a clone, and so do the spans built for the
\* same dates from the inclusive range and from the literal "[l, u]".
C16_HashConsistent ==
    last.op = "hash" =>
        LET first == lower(last.a)
            final == upper(last.a) - 1
            inclusive == FromRangeInclusive(first, final)
            parsed == from_str(<<Tok("["), DateTok(first), Tok(","), DateTok(final),
                                 Tok("]")>>)
        IN  /\ \A k \in Live : eq(slots[k], last.a) => hash(slots[k]) = last.fed
            /\ hash(clone(last.a)) = last.fed
            /\ IsSpan(inclusive)
            /\ eq(inclusive, last.a)
            /\ hash(inclusive) = last.fed
            /\ parsed.tag = "Ok"
            /\ eq(parsed.span, last.a)
            /\ hash(parsed.span) = last.fed

\* A span was hashed while an equal span is held in another variable.
C16_Witness ==
    /\ last.op = "hash"
    /\ Cardinality({k \in Live : eq(slots[k], last.a)}) >= 2

---------------------------------------------------------------------------
(* C17 *)

\* C17: parsing the text printed for a span gives a span equal to it, with
\* the same bounds and the same inclusivity.
C17_RoundTrip ==
    last.op = "fmt" =>
        LET parsed == from_str(last.text)
        IN  /\ parsed.tag = "Ok"
            /\ eq(parsed.span, last.a)
            /\ lower(parsed.span) = lower(last.a)
            /\ upper(parsed.span) = upper(last.a)
            /\ parsed.span.lower_inc = last.a.lower_inc
            /\ parsed.span.upper_inc = last.a.upper_inc

\* A span of more than one date was printed.
C17_Witness ==
    /\ last.op = "fmt"
    /\ upper(last.a) - lower(last.a) > 1

---------------------------------------------------------------------------
(* C18 *)

ComparisonNames ==
    {q \o "_" \o r : q \in {"always", "ever"},
                     r \in {"equal", "not_equal", "less", "less_or_equal",
                            "greater_or_equal", "greater",
                            "equal_than_value", "not_equal_than_value"}}

\* C18: every always_* and ever_* predicate returns None exactly when the
\* engine reports -1, Some(true) exactly when it reports 1 and Some(false)
\* exactly when it reports 0.
C18_ThreeValued ==
    tcall.op \in ComparisonNames =>
        /\ tcall.res = NONE <=> tcall.raw = 0 - 1
        /\ tcall.res = SomeBool(TRUE) <=> tcall.raw = 1
        /\ tcall.res = SomeBool(FALSE) <=> tcall.raw = 0

\* Two temporal values with no instant in common were compared.
C18_Witness ==
    /\ tcall.op = "always_less"
    /\ tcall.raw = 0 - 1
    /\ tcall.res = NONE

---------------------------------------------------------------------------
(* C19 *)

\* C19: whenever always_equal(a, b) and ever_not_equal(a, b) are both
\* determinate, always_equal(a, b) is Some(true) exactly when
\* ever_not_equal(a, b) is Some(false).
C19_AlwaysEverDuality ==
    tcall.op = "always_equal" =>
        LET ne == ever_not_equal(tcall.a, tcall.b)
        IN  (tcall.res # NONE /\ ne # NONE) =>
                (tcall.res = SomeBool(TRUE) <=> ne = SomeBool(FALSE))

\* Two different temporal values that agree wherever both are defined were
\* compared.
C19_Witness ==
    /\ tcall.op = "always_equal"
    /\ tcall.res = SomeBool(TRUE)
    /\ tcall.a # tcall.b

---------------------------------------------------------------------------
(* C20 *)

ShapeOperations ==
    {"merge_other", "at_tstz_span", "at_tstz_span_set", "minus_timestamp",
     "minus_timestamp_set", "minus_tstz_span", "minus_tstz_span_set",
     "at_min", "at_max", "minus_min", "minus_max"}

\* C20: the variant of the value an at_*, minus_* or merge operation returns
\* is the shape of the computed result (one instant: Instant, one run:
\* Sequence, several runs: SequenceSet), whatever the variant of the receiver.
C20_VariantMatchesShape ==
    (tcall.op \in ShapeOperations /\ tcall.res.tag = "Temporal") =>
        tcall.res.variant = Shape(tcall.res.inner.vals)

---------------------------------------------------------------------------
(* C21 *)

AtOperations == {"at_timestamp", "at_tstz_span", "at_tstz_span_set"}
MinusOperations ==
    {"minus_timestamp", "minus_timestamp_set", "minus_tstz_span", "minus_tstz_span_set"}

\* The instants the argument of the restriction under way covers.
ArgumentInstants ==
    IF tcall.op \in {"at_timestamp", "minus_timestamp"} THEN {tcall.t} ELSE tcall.span

\* C21: at_timestamp, at_tstz_span and at_tstz_span_set return an explicit
\* absent result when no portion of the value matches the argument, and the
\* minus_* operations return one when the argument covers the whole
\* definition time of the value.
C21_AbsentWhenNothingMatches ==
    /\ (/\ tcall.op \in AtOperations
        /\ DefinedAt(tcall.a.inner.vals) \cap ArgumentInstants = {})
           => tcall.res = NONE
    /\ (/\ tcall.op \in MinusOperations
        /\ DefinedAt(tcall.a.inner.vals) \subseteq ArgumentInstants)
           => tcall.res = NONE

---------------------------------------------------------------------------
(* C22 *)

\* C22: whenever v.at_tstz_span(X) and v.minus_tstz_span(X) are both defined,
\* merging them with merge_other gives a value equal to v, and the instants
\* of the two parts partition the instants of v.
C22_RestrictionCompleteness ==
    tcall.op = "at_tstz_span" =>
        LET at == tcall.res
            minus == minus_tstz_span(tcall.a, tcall.span)
        IN  (at.tag = "Temporal" /\ minus.tag = "Temporal") =>
                LET merged == merge_other(at, minus)
                IN  /\ merged.tag = "Temporal"
                    /\ temporal_eq(merged.inner, tcall.a.inner)
                    /\ merged.variant = tcall.a.variant
                    /\ DefinedAt(at.inner.vals) \cap DefinedAt(minus.inner.vals) = {}
                    /\ DefinedAt(at.inner.vals) \cup DefinedAt(minus.inner.vals)
                           = DefinedAt(tcall.a.inner.vals)

\* A value of several runs was restricted to a span that keeps a part of it
\* and leaves a part of it.
C22_Witness ==
    /\ tcall.op = "at_tstz_span"
    /\ tcall.a.variant = "SequenceSet"
    /\ tcall.res.tag = "Temporal"
    /\ minus_tstz_span(tcall.a, tcall.span).tag = "Temporal"

---------------------------------------------------------------------------
(* C23 *)

\* The spans are in ascending order, none is empty, and no two of them
\* overlap or touch.
Normalised(spans) ==
    /\ \A i \in 1..Len(spans) : spans[i].lower <= spans[i].upper
    /\ \A i \in 1..(Len(spans) - 1) : spans[i].upper + 1 < spans[i + 1].lower

---------------------------------------------------------------------------
(* C24 *)

---------------------------------------------------------------------------
(* C25 *)

\* No instant of the sequence lies farther than the distance from the chord
\* between its first and its last instant.
WithinDistance(instants, distance, synchronized) ==
    \A k \in 1..Len(instants) :
        Deviation(instants[1], instants[Len(instants)], instants[k], synchronized)
            <= distance * (instants[Len(instants)].t - instants[1].t)

\* All instants lie on one straight line.
Collinear(instants) == WithinDistance(instants, 0, TRUE)

\* C25: simplify_douglas_peucker always keeps the first and the last instant
\* of a sequence, and returns a sequence of exactly these two when no instant
\* lies farther from the chord between them than the distance, as when all
\* instants lie on one straight line.
C25_DouglasPeuckerEndpoints ==
    tcall.op = "simplify_douglas_peucker" =>
        LET input == tcall.a.inner.instants
            n == Len(input)
        IN  /\ tcall.res.tag = "Temporal"
            /\ tcall.res.variant = "Sequence"
            /\ LET output == tcall.res.inner.instants
               IN  /\ Len(output) >= 1
                   /\ output[1] = input[1]
                   /\ output[Len(output)] = input[n]
                   /\ (n >= 2 /\ (Collinear(input)
                                  \/ WithinDistance(input, tcall.value, tcall.flag))) =>
                          output = <<input[1], input[n]>>

\* A sequence of five instants on a rising straight line was simplified to
\* its first and its last instant.
C25_Witness ==
    /\ tcall.op = "simplify_douglas_peucker"
    /\ Len(tcall.a.inner.instants) = 5
    /\ Collinear(tcall.a.inner.instants)
    /\ tcall.a.inner.instants[1].value < tcall.a.inner.instants[5].value
    /\ Len(tcall.res.inner.instants) = 2

---------------------------------------------------------------------------
(* C26 *)

\* C26: instant_n(n) and timestamp_n(n) count from 0: for 0 <= n <
\* num_instants() they return the (n + 1)-th instant and its timestamp, so
\* that instant_n(0) is start_instant() and instant_n(num_instants() - 1) is
\* end_instant(); for every other n they return None.
C26_ZeroBasedIndex ==
    /\ tcall.op = "instant_n" =>
          /\ (0 <= tcall.n /\ tcall.n < num_instants(tcall.a)) =>
                 /\ tcall.res.tag = "Some"
                 /\ DefinedAt(tcall.res.value.inner.vals) =
                        {InstantTime(tcall.a.inner.vals, tcall.n + 1)}
          /\ tcall.n = 0 => tcall.res = SomeValue(start_instant(tcall.a))
          /\ tcall.n = num_instants(tcall.a) - 1 =>
                 tcall.res = SomeValue(end_instant(tcall.a))
          /\ (tcall.n < 0 \/ tcall.n >= num_instants(tcall.a)) => tcall.res = NONE
    /\ tcall.op = "timestamp_n" =>
          /\ (0 <= tcall.n /\ tcall.n < num_instants(tcall.a)) =>
                 tcall.res = SomeValue(InstantTime(tcall.a.inner.vals, tcall.n + 1))
          /\ (tcall.n < 0 \/ tcall.n >= num_instants(tcall.a)) => tcall.res = NONE

---------------------------------------------------------------------------
(* C27 *)

\* C27: time_split_n(n) is defined for every n and returns exactly n parts,
\* each of the duration (end_timestamp() - start_timestamp()) / n, one after
\* the other from start_timestamp() on, which together hold every instant of
\* the value, the last one included.
C27_TimeSplitN ==
    tcall.op = "time_split_n" =>
        LET a == tcall.a
            n == tcall.count
            whole == (end_timestamp(a) - start_timestamp(a)) * UnitsPerInstant
        IN  /\ tcall.res.tag = "Vec"
            /\ n.hi = 0
            /\ Len(tcall.res.items) = n.lo
            /\ \A k \in 1..Len(tcall.res.items) :
                   /\ tcall.res.items[k].tag = "Temporal"
                   /\ tcall.res.items[k].inner.lower =
                          start_timestamp(a) * UnitsPerInstant + (k - 1) * (whole \div n.lo)
                   /\ tcall.res.items[k].inner.upper - tcall.res.items[k].inner.lower =
                          whole \div n.lo
            /\ UNION {DefinedAt(tcall.res.items[k].inner.vals) :
                          k \in 1..Len(tcall.res.items)} = DefinedAt(a.inner.vals)

---------------------------------------------------------------------------
(* C29 *)

\* C29: contains and distance_to_value agree on every span s and date v:
\* s.distance_to_value(v) is zero exactly when s.contains(v) is true, both
\* taking v with the epoch offset of the constructors.
C29_ContainsAgreesWithDistance ==
    /\ last.op = "contains" =>
          (last.flag <=> distance_to_value(last.a, last.l) = 0)
    /\ last.op = "distance_to_value" =>
          (last.num = 0 <=> contains(last.a, last.l))

---------------------------------------------------------------------------
(* C28 *)

\* C28: after any sequence of DateSpan operations no allocation that backs
\* a span was released twice or used after its release, no two DateSpan
\* values hold the same allocation, every allocation is held by a DateSpan
\* (or, during shift_scale_time, by a Box) so that none is left unreleased
\* when its value is gone; clone, shift_scale and intersection return an
\* allocation none of their operands holds, and intersection releases each
\* of its two operands once.
C28_AllocationSafety ==
    /\ fault = "none"
    /\ \A i \in Holding : heap[spanInner[i]] = "live"
    /\ \A i \in Holding, j \in Holding : i # j => spanInner[i] # spanInner[j]
    /\ \A p \in Addrs :
           heap[p] = "live" =>
               (p \in shiftCall.boxes \/ \E i \in Holding : spanInner[i] = p)
    /\ lastAlloc.made # 0 =>
           \A k \in 1..Len(lastAlloc.operands) : lastAlloc.operands[k] # lastAlloc.made
    /\ lastAlloc.op = "bitand" =>
           /\ Len(lastAlloc.freed) = 2
           /\ lastAlloc.freed[1] # lastAlloc.freed[2]
           /\ {lastAlloc.freed[1], lastAlloc.freed[2]} =
                  {lastAlloc.operands[1], lastAlloc.operands[2]}
           /\ \A k \in 1..2 :
                  \A i \in Holding : spanInner[i] # lastAlloc.freed[k]

\* An intersection returned a span: its two operands are released and the
\* result is held, while another DateSpan lives on.
C28_Witness ==
    /\ lastAlloc.op = "bitand"
    /\ lastAlloc.made # 0
    /\ Cardinality(Holding) = 2
    /\ Cardinality({p \in Addrs : heap[p] = "live"}) = 2

---------------------------------------------------------------------------
(* C30 *)

\* C30: in shift_time, scale_time and shift_scale_time every interval handed
\* to the engine is still allocated when the engine reads it: at the call,
\* each of d and w that is not null points into a Box that is not dropped.
C30_IntervalsLiveAtCall ==
    shiftCall.pc = "called" =>
        /\ Dangling = {}
        /\ \A p \in {shiftCall.d, shiftCall.w} \ {0} : heap[p] = "live"
        /\ shiftCall.outcome = "applied"

====
